---- MODULE Spec2Model ----
(***************************************************************************)
(* A model of the opencore-identity package: the permission merge engine,  *)
(* the in-memory TTL cache, the authentication strategies (local,          *)
(* credentials) over an account store, and the principal resolvers with    *)
(* their per-connection cache.                                             *)
(*                                                                         *)
(* Conventions.                                                            *)
(*  - A permission string is a sequence of one-character strings, so that  *)
(*    startsWith and substring(1) are computed rather than assumed:        *)
(*    "-a" is <<"-", "a">>.                                                *)
(*  - Time is the integer value of Date.now(); None stands for null or     *)
(*    undefined, and an optional number or Date n is carried as Some(n).   *)
(*  - An async handler is cut at its awaits.  One step of a call performs  *)
(*    the awaited store operation and runs the handler up to its next      *)
(*    await; steps of different calls interleave freely.                   *)
(*  - The package ships several drafts of some classes.  Each modelled     *)
(*    class keeps its name; where two drafts share a name the older one    *)
(*    (under services/) carries the suffix Svc.                            *)
(***************************************************************************)
EXTENDS Integers, Sequences, FiniteSets, TLC

VARIABLES
    \* ---- permission merge engine
    m_base,         \* role.permissions handed to the merge
    m_overrides,    \* account.customPermissions handed to the merge
    m_effective,    \* the merge's result
    m_pc,           \* "input" | "merged" | "combined"
    \* ---- the clock
    now,            \* Date.now()
    \* ---- MemoryCacheService
    mc_cache,       \* Map<string, CacheEntry>: key -> None | [value, expiresAt]
    mc_last,        \* the call that just returned: [op, key, at, entry, result]
    \* ---- authentication
    provider,       \* the AuthService implementation that is installed
    autoCreate,     \* options.auth.autoCreate / identity_auto_create
    accounts,       \* the account store: the rows, in insertion order
    players,        \* player.accountID of every connection
    calls,          \* the handler invocations in flight, one per slot
    nCalls,         \* handler invocations started so far
    \* ---- principal resolution
    resolver,       \* the PrincipalProviderContract implementation that is installed
    roles,          \* the role store: role id -> role
    cache,          \* IdentityPrincipalProvider.cache: client -> None | Some(entry)
    pcalls,         \* the resolver invocations in flight, one per slot
    resolved,       \* per client: the Principal last resolved for it, and when
    refreshed,      \* per client: a refresh completed after the last store change
    \* ---- the API-backed strategy and resolver
    api,            \* the API configuration: [baseUrl, timeoutMs, allowFallback]
    authCache       \* ApiAuthProvider (Svc) cache: client -> None | Some(entry)

mergeVars == <<m_base, m_overrides, m_effective, m_pc>>
mcVars == <<mc_cache, mc_last>>
authVars == <<provider, autoCreate, accounts, players, calls, nCalls>>
principalVars == <<resolver, roles, cache, pcalls, resolved, refreshed>>
apiVars == <<api, authCache>>

vars == <<m_base, m_overrides, m_effective, m_pc, now, mc_cache, mc_last,
          provider, autoCreate, accounts, players, calls, nCalls,
          resolver, roles, cache, pcalls, resolved, refreshed, api, authCache>>

\* null / undefined.  An optional number n is carried as <<n>>.
None == <<>>
Some(n) == <<n>>
ValueOf(opt) == opt[1]

(***************************************************************************)
(* Bounds of the model.                                                    *)
(***************************************************************************)
\* Longest customPermissions list handed to the merge engine.
MaxOverrides == 2
\* The clock runs from 0 to MaxTime.
MaxTime == 2
\* Largest ttl handed to MemoryCacheService.set.
MaxTtl == 2
\* Handler invocations started in one behaviour.
MaxCalls == 2
\* Resolver invocations started in one behaviour.
MaxResolves == 3

(***************************************************************************)
(* Permission strings.                                                     *)
(***************************************************************************)
\* Bare permission names.
PermNames == {<<"a">>, <<"b">>}

Grant(n) == <<"+">> \o n
Revoke(n) == <<"-">> \o n

\* Everything a customPermissions list may hold: bare, +grant, -revoke.
OverrideEntries ==
    PermNames \cup {Grant(n) : n \in PermNames} \cup {Revoke(n) : n \in PermNames}

\* String.prototype.startsWith for a one-character prefix.
StartsWith(s, c) == Len(s) > 0 /\ s[1] = c

\* String.prototype.substring(1) / slice(1).
Substring1(s) == IF Len(s) = 0 THEN s ELSE Tail(s)

SeqsUpTo(S, n) == UNION {[1..k -> S] : k \in 0..n}

\* A merge in which every permission an override names changes sides: it is
\* added when absent and removed when present.
mergePermissionsFlip(base, overrides) ==
    LET named == {IF StartsWith(overrides[i], "-") \/ StartsWith(overrides[i], "+")
                  THEN Substring1(overrides[i]) ELSE overrides[i] :
                        i \in 1..Len(overrides)}
    IN (base \ named) \cup (named \ base)

(***************************************************************************)
(* IdentityPrincipalProvider.mergePermissions: a Set seeded with the role  *)
(* permissions, the overrides applied in list order.                       *)
(***************************************************************************)
RECURSIVE MergeLoop(_, _)
MergeLoop(perms, overrides) ==
    IF overrides = <<>> THEN perms
    ELSE LET override == Head(overrides) IN
         MergeLoop(
            IF StartsWith(override, "-") THEN perms \ {Substring1(override)}
            ELSE IF StartsWith(override, "+") THEN perms \cup {Substring1(override)}
            ELSE perms \cup {override},
            Tail(overrides))

mergePermissions(base, overrides) == MergeLoop(base, overrides)

(***************************************************************************)
(* LocalPrincipalProvider.combinePermissions: as above, but only the "-"   *)
(* prefix is interpreted; every other entry is added as it stands.         *)
(***************************************************************************)
RECURSIVE CombineLoop(_, _)
CombineLoop(base, customPerms) ==
    IF customPerms = <<>> THEN base
    ELSE LET perm == Head(customPerms) IN
         CombineLoop(
            IF StartsWith(perm, "-") THEN base \ {Substring1(perm)}
            ELSE base \cup {perm},
            Tail(customPerms))

combinePermissions(rolePermissions, customPerms) ==
    CombineLoop(rolePermissions, customPerms)

(***************************************************************************)
(* The merge engine as a machine: an input is drawn, one of the two merge  *)
(* functions is applied to it.                                             *)
(***************************************************************************)
MergeIdle ==
    /\ m_base = {}
    /\ m_overrides = <<>>
    /\ m_effective = {}
    /\ m_pc = "off"

McIdle ==
    /\ mc_cache = None
    /\ mc_last = None

PrincipalIdle ==
    /\ resolver = "off"
    /\ roles = None
    /\ cache = None
    /\ pcalls = None
    /\ resolved = None
    /\ refreshed = None

ApiIdle ==
    /\ api = [baseUrl |-> FALSE, timeoutMs |-> None, allowFallback |-> FALSE]
    /\ authCache = None

AuthIdle ==
    /\ provider = "off"
    /\ autoCreate = TRUE
    /\ accounts = <<>>
    /\ players = None
    /\ calls = None
    /\ nCalls = 0

MergeInit ==
    /\ m_base \in SUBSET PermNames
    /\ m_overrides \in SeqsUpTo(OverrideEntries, MaxOverrides)
    /\ m_effective = {}
    /\ m_pc = "input"
    /\ now = 0
    /\ McIdle
    /\ AuthIdle
    /\ PrincipalIdle
    /\ ApiIdle

DoMerge ==
    /\ m_pc = "input"
    /\ m_effective' = mergePermissions(m_base, m_overrides)
    /\ m_pc' = "merged"
    /\ UNCHANGED <<m_base, m_overrides, now, mcVars, authVars, principalVars, apiVars>>

DoCombine ==
    /\ m_pc = "input"
    /\ m_effective' = combinePermissions(m_base, m_overrides)
    /\ m_pc' = "combined"
    /\ UNCHANGED <<m_base, m_overrides, now, mcVars, authVars, principalVars, apiVars>>

MergeNext == DoMerge \/ DoCombine

SpecMerge == MergeInit /\ [][MergeNext]_vars

\* The entries of a list, as a set.
Entries(list) == {list[i] : i \in 1..Len(list)}

IsNegated(n, list) == Revoke(n) \in Entries(list)
IsGranted(n, list) == n \in Entries(list) \/ Grant(n) \in Entries(list)

(***************************************************************************)
(* C2 (negation precedence).  Whenever a permission appears in the custom  *)
(* list both negated and granted, the merged effective set excludes it,    *)
(* whatever the order of the entries.                                      *)
(***************************************************************************)
C2_NegationPrecedence ==
    m_pc \in {"merged", "combined"} =>
        \A n \in PermNames :
            (IsNegated(n, m_overrides) /\ IsGranted(n, m_overrides))
                => n \notin m_effective

(***************************************************************************)
(* The clock.  Date.now() never goes back; it advances between any two     *)
(* steps.                                                                  *)
(***************************************************************************)
Tick == now < MaxTime /\ now' = now + 1

(***************************************************************************)
(* MemoryCacheService: a Map from key to {value, expiresAt}.               *)
(***************************************************************************)
McKeys == {"k1", "k2"}
McValues == {"v1", "v2"}

\* defaultTtlMs (300000 ms), in the model's time unit of 100000 ms.
defaultTtlMs == 3

\* ttlMs as a caller passes it: a number, or undefined.
McTtls == {Some(t) : t \in 0..MaxTtl} \cup {None}

McInit ==
    /\ now = 0
    /\ mc_cache = [k \in McKeys |-> None]
    /\ mc_last = [op |-> "new", key |-> None, at |-> 0, entry |-> None, result |-> None]
    /\ MergeIdle
    /\ AuthIdle
    /\ PrincipalIdle
    /\ ApiIdle

\* What the call that just returned saw and gave back.
McReturn(op, key, entry, result) ==
    [op |-> op, key |-> key, at |-> now, entry |-> entry, result |-> result]

\* The test of get and cleanExpired: Date.now() > entry.expiresAt.
McIsExpired(entry, t) == t > entry.expiresAt

\* get(key)
McGet(key) ==
    LET entry == mc_cache[key] IN
    /\ IF entry = None
         THEN /\ mc_last' = McReturn("get", Some(key), entry, None)
              /\ UNCHANGED mc_cache
         ELSE IF McIsExpired(ValueOf(entry), now)
           THEN /\ mc_cache' = [mc_cache EXCEPT ![key] = None]
                /\ mc_last' = McReturn("get", Some(key), entry, None)
           ELSE /\ mc_last' = McReturn("get", Some(key), entry, Some(ValueOf(entry).value))
                /\ UNCHANGED mc_cache
    /\ UNCHANGED <<now, mergeVars, authVars, principalVars, apiVars>>

\* set(key, value, ttlMs)
McSet(key, value, ttlMs) ==
    LET expiresAt == now + (IF ttlMs = None THEN defaultTtlMs ELSE ValueOf(ttlMs)) IN
    /\ mc_cache' = [mc_cache EXCEPT
                       ![key] = Some([value |-> value, expiresAt |-> expiresAt])]
    /\ mc_last' = McReturn("set", Some(key), None, None)
    /\ UNCHANGED <<now, mergeVars, authVars, principalVars, apiVars>>

\* delete(key)
McDelete(key) ==
    /\ mc_cache' = [mc_cache EXCEPT ![key] = None]
    /\ mc_last' = McReturn("delete", Some(key), mc_cache[key], None)
    /\ UNCHANGED <<now, mergeVars, authVars, principalVars, apiVars>>

\* clear()
McClear ==
    /\ mc_cache' = [k \in McKeys |-> None]
    /\ mc_last' = McReturn("clear", None, None, None)
    /\ UNCHANGED <<now, mergeVars, authVars, principalVars, apiVars>>

\* cleanExpired(), run by the interval timer
McCleanExpired ==
    /\ mc_cache' = [k \in McKeys |->
            IF mc_cache[k] # None /\ McIsExpired(ValueOf(mc_cache[k]), now)
            THEN None ELSE mc_cache[k]]
    /\ mc_last' = McReturn("sweep", None, None, None)
    /\ UNCHANGED <<now, mergeVars, authVars, principalVars, apiVars>>

McTick ==
    /\ Tick
    /\ mc_last' = McReturn("tick", None, None, None)
    /\ UNCHANGED <<mc_cache, mergeVars, authVars, principalVars, apiVars>>

McNext ==
    \/ \E k \in McKeys : McGet(k)
    \/ \E k \in McKeys, v \in McValues, t \in McTtls : McSet(k, v, t)
    \/ \E k \in McKeys : McDelete(k)
    \/ McClear
    \/ McCleanExpired
    \/ McTick

SpecCache == McInit /\ [][McNext]_vars

(***************************************************************************)
(* C10 (TTL cache get).  get(key) returns the stored value only while      *)
(* now < expiresAt; for an entry with now >= expiresAt it reports the key  *)
(* absent, and the entry is gone from the cache when get returns.          *)
(***************************************************************************)
C10_GetHonoursExpiry ==
    (mc_last.op = "get" /\ mc_last.entry # None) =>
        IF mc_last.at < ValueOf(mc_last.entry).expiresAt
        THEN mc_last.result = Some(ValueOf(mc_last.entry).value)
        ELSE mc_last.result = None /\ mc_cache[ValueOf(mc_last.key)] = None

(***************************************************************************)
(* Authentication.  The account store, the connections, and the handler    *)
(* invocations of the installed AuthService.                               *)
(***************************************************************************)
nonAuthVars == <<mergeVars, mcVars, principalVars, apiVars>>

\* Slots for handler invocations that run concurrently.
Procs == {1, 2}

\* Connections, and the license identifier each of them presents.
Clients == {"c1"}
PlayerLicense == [c \in Clients |-> Some("lic1")]

\* The AuthService implementations.
Providers == {"local", "credentials", "identity"}

\* String(account.id): the decimal text of the numeric id.
String(id) == <<"str", id>>

\* randomUUID(): a linked id that no other account carries.
RandomUUID(accs) == <<"uuid", Len(accs) + 1>>

\* The id of the role flagged as default.
DefaultRoleId == "user"

\* bcrypt.hash and bcrypt.compare.
BcryptHash(password) == <<"bcrypt", password>>
BcryptCompare(password, hash) == hash = BcryptHash(password)

\* What a caller passes as credentials.
CredentialInputs ==
    {[username |-> Some("u1"), password |-> Some("pw1")],
     [username |-> Some("u1"), password |-> Some("pw2")],
     [username |-> None, password |-> Some("pw1")]}
NoCredentials == [username |-> None, password |-> None]

\* durationMs of a ban: absent, zero, or a positive span.
BanDurations == {None, Some(0), Some(1)}

\* ---- the store ---------------------------------------------------------
\* The row a store creates: the store assigns the id.
NewAccount(accs, data) ==
    [id |-> Len(accs) + 1,
     linkedId |-> data.linkedId,
     identifier |-> data.identifier,
     username |-> data.username,
     passwordHash |-> data.passwordHash,
     roleId |-> data.roleId,
     customPermissions |-> <<>>,
     isBanned |-> FALSE,
     banExpiresAt |-> None,
     lastLoginAt |-> data.lastLoginAt]

Create(accs, data) == Append(accs, NewAccount(accs, data))

\* The first row that matches, or null.
RECURSIVE FindFirst(_, _, _)
FindFirst(accs, field, value) ==
    IF accs = <<>> THEN None
    ELSE IF Head(accs)[field] = value THEN Some(Head(accs))
    ELSE FindFirst(Tail(accs), field, value)

findByIdentifier(accs, identifier) == FindFirst(accs, "identifier", identifier)
findByUsername(accs, username) == FindFirst(accs, "username", username)

\* findByLinkedId: the account whose linked identifier is the one asked for.
\* The linked identifier of a row is its linked_id column, or, for a row
\* written without one, the text of its id (the value the providers bind).
RECURSIVE findByLinkedId(_, _)
findByLinkedId(accs, linkedId) ==
    IF accs = <<>> THEN None
    ELSE IF (IF Head(accs).linkedId # None THEN Head(accs).linkedId
             ELSE String(Head(accs).id)) = linkedId
    THEN Some(Head(accs))
    ELSE findByLinkedId(Tail(accs), linkedId)

\* setBan(id, banned, reason, expiresAt)
setBan(accs, id, banned, expiresAt) ==
    [i \in 1..Len(accs) |->
        IF accs[i].id = id
        THEN [accs[i] EXCEPT !.isBanned = banned, !.banExpiresAt = expiresAt]
        ELSE accs[i]]

\* updateLastLogin(id, date)
updateLastLogin(accs, id, date) ==
    [i \in 1..Len(accs) |->
        IF accs[i].id = id THEN [accs[i] EXCEPT !.lastLoginAt = Some(date)]
        ELSE accs[i]]

\* An account is currently banned when it is flagged banned and the ban has
\* no expiry or an expiry that lies in the future.
IsCurrentlyBanned(account, t) ==
    account.isBanned /\ (account.banExpiresAt = None \/ ValueOf(account.banExpiresAt) > t)

\* The ban of the account ran out strictly before t.
BanRanOut(account, t) ==
    account.isBanned /\ account.banExpiresAt # None /\ ValueOf(account.banExpiresAt) < t

\* ---- AuthResult --------------------------------------------------------
Failure(error, accountID) ==
    [success |-> FALSE, error |-> error, accountID |-> accountID,
     account |-> None, isNewAccount |-> None]

Success(accountID, account, isNewAccount) ==
    [success |-> TRUE, error |-> "", accountID |-> accountID,
     account |-> account, isNewAccount |-> isNewAccount]

\* ---- handler invocations -----------------------------------------------
\* A slot: the handler's position (pc), its arguments and locals, what it
\* returned, and a record of what it did: the ban state of the account at
\* its ban check (sawBanned, sawRanOut), the check's verdict (tookBanned),
\* whether it linked the connection or lifted a ban, the HTTP requests it
\* has sent, the time at which its abort timer fires (deadline), and how
\* its request ended (got).
IdleCall ==
    [pc |-> "idle", op |-> "none", client |-> None, credentials |-> NoCredentials,
     accountId |-> None, account |-> None, isNew |-> FALSE, result |-> None,
     sawBanned |-> None, sawRanOut |-> None, tookBanned |-> None,
     linked |-> FALSE, unbanIssued |-> FALSE,
     requests |-> 0, deadline |-> None, got |-> "none"]

NewCall(op, client, credentials, pc) ==
    [IdleCall EXCEPT !.pc = pc, !.op = op, !.client = Some(client),
                     !.credentials = credentials]

\* A new invocation takes the first slot that holds none in flight.
Free(p) ==
    /\ calls[p].pc \in {"idle", "done"}
    /\ \A q \in Procs : q < p => calls[q].pc \notin {"idle", "done"}
    /\ nCalls < MaxCalls

\* The handler returns: its locals are gone, its result stays.
Return(c, result) ==
    [c EXCEPT !.pc = "done", !.result = Some(result), !.credentials = NoCredentials,
              !.accountId = None, !.account = None, !.isNew = FALSE,
              !.deadline = None]

\* The handler compares the account's ban fields with the clock and decides.
BanChecked(c, account, verdict) ==
    [c EXCEPT !.sawBanned = Some(IsCurrentlyBanned(account, now)),
              !.sawRanOut = Some(BanRanOut(account, now)),
              !.tookBanned = Some(verdict)]

\* player.linkAccount(accountID) / player.unlinkAccount()
linkAccount(client, accountID) == [players EXCEPT ![client] = accountID]
unlinkAccount(client) == [players EXCEPT ![client] = None]

AuthInit ==
    /\ provider \in Providers
    /\ autoCreate \in (IF provider = "credentials" THEN {TRUE} ELSE BOOLEAN)
    /\ accounts = <<>>
    /\ players = [c \in Clients |-> None]
    /\ calls = [p \in Procs |-> IdleCall]
    /\ nCalls = 0
    /\ now = 0
    /\ MergeIdle
    /\ McIdle
    /\ PrincipalIdle
    /\ ApiIdle

(***************************************************************************)
(* LocalAuthProvider: authentication by the connection's license.          *)
(***************************************************************************)
LocalBanLiftedAlways(account, t) == TRUE

\* account.banExpiresAt && new Date(account.banExpiresAt) < new Date()
LocalBanLifted(account, t) ==
    account.banExpiresAt # None /\ ValueOf(account.banExpiresAt) < t

\* authenticateLocally from the link to the return.
LocalLink(p, c, account) ==
    /\ players' = linkAccount(ValueOf(c.client), String(account.id))
    /\ calls' = [calls EXCEPT ![p] =
            Return([c EXCEPT !.linked = TRUE],
                   Success(String(account.id), Some(account), Some(c.isNew)))]

\* authenticateLocally once it holds an account: the ban test, then the
\* setBan await, the failure, or the link.
LocalAfterAccount(p, c, account) ==
    LET lifted == account.isBanned /\ LocalBanLifted(account, now)
        c1 == BanChecked([c EXCEPT !.account = Some(account)], account,
                         account.isBanned /\ ~lifted)
    IN  IF account.isBanned
        THEN IF lifted
             THEN /\ calls' = [calls EXCEPT ![p] = [c1 EXCEPT !.pc = "setBan"]]
                  /\ UNCHANGED players
             ELSE /\ calls' = [calls EXCEPT ![p] = Return(c1, Failure("banned", None))]
                  /\ UNCHANGED players
        ELSE LocalLink(p, c1, account)

\* authenticate (register delegates to it), up to the findByIdentifier await.
LocalAuthenticate(p, client) ==
    /\ provider = "local"
    /\ Free(p)
    /\ nCalls' = nCalls + 1
    /\ calls' = [calls EXCEPT ![p] =
            IF PlayerLicense[client] = None
            THEN Return(NewCall("authenticate", client, NoCredentials, "start"),
                        Failure("missing identifier", None))
            ELSE NewCall("authenticate", client, NoCredentials, "findByIdentifier")]
    /\ UNCHANGED <<provider, autoCreate, accounts, players, now, nonAuthVars>>

\* findByIdentifier answers.
LocalFound(p) ==
    LET c == calls[p]
        account == findByIdentifier(accounts, PlayerLicense[ValueOf(c.client)])
    IN  /\ provider = "local"
        /\ c.pc = "findByIdentifier"
        /\ IF account = None
           THEN /\ calls' = [calls EXCEPT ![p] =
                       IF autoCreate = FALSE
                       THEN Return(c, Failure("auto-create disabled", None))
                       ELSE [c EXCEPT !.pc = "create"]]
                /\ UNCHANGED players
           ELSE LocalAfterAccount(p, c, ValueOf(account))
        /\ UNCHANGED <<provider, autoCreate, accounts, nCalls, now, nonAuthVars>>

\* store.create answers.
LocalCreated(p) ==
    LET c == calls[p]
        data == [linkedId |-> None,
                 identifier |-> PlayerLicense[ValueOf(c.client)],
                 username |-> None, passwordHash |-> None, roleId |-> None,
                 lastLoginAt |-> None]
    IN  /\ provider = "local"
        /\ c.pc = "create"
        /\ accounts' = Create(accounts, data)
        /\ LocalAfterAccount(p, [c EXCEPT !.isNew = TRUE], NewAccount(accounts, data))
        /\ UNCHANGED <<provider, autoCreate, nCalls, now, nonAuthVars>>

\* store.setBan(account.id, false) answers.
LocalBanCleared(p) ==
    LET c == calls[p]
        account == ValueOf(c.account)
    IN  /\ provider = "local"
        /\ c.pc = "setBan"
        /\ accounts' = setBan(accounts, account.id, FALSE, None)
        /\ LocalLink(p, [c EXCEPT !.unbanIssued = TRUE], account)
        /\ UNCHANGED <<provider, autoCreate, nCalls, now, nonAuthVars>>

\* validateSession, up to the findByLinkedId await.
LocalValidateSession(p, client) ==
    /\ provider = "local"
    /\ Free(p)
    /\ nCalls' = nCalls + 1
    /\ calls' = [calls EXCEPT ![p] =
            IF players[client] = None
            THEN Return(NewCall("validateSession", client, NoCredentials, "start"),
                        Failure("no session", None))
            ELSE [NewCall("validateSession", client, NoCredentials, "findByLinkedId")
                    EXCEPT !.accountId = players[client]]]
    /\ UNCHANGED <<provider, autoCreate, accounts, players, now, nonAuthVars>>

\* account.isBanned && (!account.banExpiresAt || new Date(account.banExpiresAt) > new Date())
LocalSessionBanned(account, t) ==
    account.isBanned /\ (account.banExpiresAt = None \/ ValueOf(account.banExpiresAt) > t)

\* findByLinkedId answers.
LocalValidated(p) ==
    LET c == calls[p]
        account == findByLinkedId(accounts, c.accountId)
    IN  /\ provider = "local"
        /\ c.pc = "findByLinkedId"
        /\ calls' = [calls EXCEPT ![p] =
                IF account = None
                THEN Return(c, Failure("account gone", None))
                ELSE LET a == ValueOf(account)
                         c1 == BanChecked([c EXCEPT !.account = account], a,
                                          LocalSessionBanned(a, now))
                     IN  IF LocalSessionBanned(a, now)
                         THEN Return(c1, Failure("banned", None))
                         ELSE Return(c1, Success(String(a.id), account, None))]
        /\ UNCHANGED <<provider, autoCreate, accounts, players, nCalls, now, nonAuthVars>>

\* logout
LocalLogout(p, client) ==
    /\ provider = "local"
    /\ Free(p)
    /\ nCalls' = nCalls + 1
    /\ players' = unlinkAccount(client)
    /\ calls' = [calls EXCEPT ![p] =
            [NewCall("logout", client, NoCredentials, "done") EXCEPT !.result = None]]
    /\ UNCHANGED <<provider, autoCreate, accounts, now, nonAuthVars>>

LocalNext ==
    \/ \E p \in Procs, k \in Clients : LocalAuthenticate(p, k)
    \/ \E p \in Procs : LocalFound(p)
    \/ \E p \in Procs : LocalCreated(p)
    \/ \E p \in Procs : LocalBanCleared(p)
    \/ \E p \in Procs, k \in Clients : LocalValidateSession(p, k)
    \/ \E p \in Procs : LocalValidated(p)
    \/ \E p \in Procs, k \in Clients : LocalLogout(p, k)

(***************************************************************************)
(* CredentialsAuthProvider: authentication by username and password.       *)
(***************************************************************************)
\* isBanned(account)
isBanned(account, t) ==
    IF ~account.isBanned THEN FALSE
    ELSE IF account.banExpiresAt # None /\ ValueOf(account.banExpiresAt) < t THEN FALSE
    ELSE TRUE

\* `internal:${username}`
InternalIdentifier(username) == <<"internal:", username>>

\* authenticate / register, up to the findByUsername await.
CredentialsStart(p, client, op, credentials) ==
    /\ provider = "credentials"
    /\ Free(p)
    /\ nCalls' = nCalls + 1
    /\ calls' = [calls EXCEPT ![p] =
            IF credentials.username = None \/ credentials.password = None
            THEN Return(NewCall(op, client, credentials, "start"),
                        Failure("credentials required", None))
            ELSE NewCall(op, client, credentials, "findByUsername")]
    /\ UNCHANGED <<provider, autoCreate, accounts, players, now, nonAuthVars>>

\* authenticate that provisions the account it does not find.
CredentialsFoundProvisioning(p) ==
    LET c == calls[p]
        account == findByUsername(accounts, c.credentials.username)
    IN  /\ provider = "credentials"
        /\ c.pc = "findByUsername"
        /\ c.op = "authenticate"
        /\ calls' = [calls EXCEPT ![p] =
                IF account = None THEN [c EXCEPT !.pc = "hash"]
                ELSE [c EXCEPT !.pc = "compare", !.account = account]]
        /\ UNCHANGED <<provider, autoCreate, accounts, players, nCalls, now, nonAuthVars>>

\* findByUsername answers authenticate.
CredentialsFound(p) ==
    LET c == calls[p]
        account == findByUsername(accounts, c.credentials.username)
    IN  /\ provider = "credentials"
        /\ c.pc = "findByUsername"
        /\ c.op = "authenticate"
        /\ calls' = [calls EXCEPT ![p] =
                IF account = None THEN Return(c, Failure("account not found", None))
                ELSE IF ValueOf(account).passwordHash = None
                THEN Return(c, Failure("no password set", None))
                ELSE [c EXCEPT !.pc = "compare", !.account = account]]
        /\ UNCHANGED <<provider, autoCreate, accounts, players, nCalls, now, nonAuthVars>>

\* bcrypt.compare answers: the ban test, then the link.
CredentialsCompared(p) ==
    LET c == calls[p]
        account == ValueOf(c.account)
        isValid == BcryptCompare(ValueOf(c.credentials.password),
                                 ValueOf(account.passwordHash))
        c1 == BanChecked(c, account, isBanned(account, now))
    IN  /\ provider = "credentials"
        /\ c.pc = "compare"
        /\ IF ~isValid
           THEN /\ calls' = [calls EXCEPT ![p] = Return(c, Failure("invalid credentials", None))]
                /\ UNCHANGED players
           ELSE IF isBanned(account, now)
           THEN /\ calls' = [calls EXCEPT ![p] = Return(c1, Failure("banned", None))]
                /\ UNCHANGED players
           ELSE /\ players' = linkAccount(ValueOf(c.client), String(account.id))
                /\ calls' = [calls EXCEPT ![p] =
                        Return([c1 EXCEPT !.linked = TRUE],
                               Success(String(account.id), c.account, None))]
        /\ UNCHANGED <<provider, autoCreate, accounts, nCalls, now, nonAuthVars>>

\* register that does not look at what findByUsername found.
CredentialsExistingIgnored(p) ==
    LET c == calls[p]
    IN  /\ provider = "credentials"
        /\ c.pc = "findByUsername"
        /\ c.op = "register"
        /\ calls' = [calls EXCEPT ![p] = [c EXCEPT !.pc = "hash"]]
        /\ UNCHANGED <<provider, autoCreate, accounts, players, nCalls, now, nonAuthVars>>

\* findByUsername answers register.
CredentialsExisting(p) ==
    LET c == calls[p]
        existing == findByUsername(accounts, c.credentials.username)
    IN  /\ provider = "credentials"
        /\ c.pc = "findByUsername"
        /\ c.op = "register"
        /\ calls' = [calls EXCEPT ![p] =
                IF existing # None THEN Return(c, Failure("username taken", None))
                ELSE [c EXCEPT !.pc = "hash"]]
        /\ UNCHANGED <<provider, autoCreate, accounts, players, nCalls, now, nonAuthVars>>

\* bcrypt.hash answers.
CredentialsHashed(p) ==
    /\ provider = "credentials"
    /\ calls[p].pc = "hash"
    /\ calls' = [calls EXCEPT ![p].pc = "getDefaultRole"]
    /\ UNCHANGED <<provider, autoCreate, accounts, players, nCalls, now, nonAuthVars>>

\* roleStore.getDefaultRole answers.
CredentialsRoleFetched(p) ==
    /\ provider = "credentials"
    /\ calls[p].pc = "getDefaultRole"
    /\ calls' = [calls EXCEPT ![p].pc = "create"]
    /\ UNCHANGED <<provider, autoCreate, accounts, players, nCalls, now, nonAuthVars>>

\* accountStore.create answers: the link and the return.
CredentialsCreated(p) ==
    LET c == calls[p]
        username == ValueOf(c.credentials.username)
        license == PlayerLicense[ValueOf(c.client)]
        data == [linkedId |-> None,
                 identifier |-> IF license # None THEN license
                                ELSE InternalIdentifier(username),
                 username |-> Some(username),
                 passwordHash |-> Some(BcryptHash(ValueOf(c.credentials.password))),
                 roleId |-> Some(DefaultRoleId),
                 lastLoginAt |-> None]
        account == NewAccount(accounts, data)
    IN  /\ provider = "credentials"
        /\ c.pc = "create"
        /\ accounts' = Create(accounts, data)
        /\ players' = linkAccount(ValueOf(c.client), String(account.id))
        /\ calls' = [calls EXCEPT ![p] =
                Return([c EXCEPT !.linked = TRUE, !.isNew = TRUE, !.account = Some(account)],
                       Success(String(account.id), Some(account), Some(TRUE)))]
        /\ UNCHANGED <<provider, autoCreate, nCalls, now, nonAuthVars>>

\* validateSession, up to the findByLinkedId await.
CredentialsValidateSession(p, client) ==
    /\ provider = "credentials"
    /\ Free(p)
    /\ nCalls' = nCalls + 1
    /\ calls' = [calls EXCEPT ![p] =
            IF players[client] = None
            THEN Return(NewCall("validateSession", client, NoCredentials, "start"),
                        Failure("not authenticated", None))
            ELSE [NewCall("validateSession", client, NoCredentials, "findByLinkedId")
                    EXCEPT !.accountId = players[client]]]
    /\ UNCHANGED <<provider, autoCreate, accounts, players, now, nonAuthVars>>

\* findByLinkedId answers.
CredentialsValidated(p) ==
    LET c == calls[p]
        account == findByLinkedId(accounts, c.accountId)
    IN  /\ provider = "credentials"
        /\ c.pc = "findByLinkedId"
        /\ calls' = [calls EXCEPT ![p] =
                IF account = None
                THEN Return(c, Failure("session invalid or banned", None))
                ELSE LET a == ValueOf(account)
                         c1 == BanChecked([c EXCEPT !.account = account], a,
                                          isBanned(a, now))
                     IN  IF isBanned(a, now)
                         THEN Return(c1, Failure("session invalid or banned", None))
                         ELSE Return(c1, Success(String(a.id), account, None))]
        /\ UNCHANGED <<provider, autoCreate, accounts, players, nCalls, now, nonAuthVars>>

\* logout
CredentialsLogout(p, client) ==
    /\ provider = "credentials"
    /\ Free(p)
    /\ nCalls' = nCalls + 1
    /\ players' = unlinkAccount(client)
    /\ calls' = [calls EXCEPT ![p] =
            [NewCall("logout", client, NoCredentials, "done") EXCEPT !.result = None]]
    /\ UNCHANGED <<provider, autoCreate, accounts, now, nonAuthVars>>

CredentialsNext ==
    \/ \E p \in Procs, k \in Clients, op \in {"authenticate", "register"},
          cr \in CredentialInputs : CredentialsStart(p, k, op, cr)
    \/ \E p \in Procs : CredentialsFound(p)
    \/ \E p \in Procs : CredentialsCompared(p)
    \/ \E p \in Procs : CredentialsExisting(p)
    \/ \E p \in Procs : CredentialsHashed(p)
    \/ \E p \in Procs : CredentialsRoleFetched(p)
    \/ \E p \in Procs : CredentialsCreated(p)
    \/ \E p \in Procs, k \in Clients : CredentialsValidateSession(p, k)
    \/ \E p \in Procs : CredentialsValidated(p)
    \/ \E p \in Procs, k \in Clients : CredentialsLogout(p, k)

(***************************************************************************)
(* IdentityAuthProvider over AccountService: the earlier local strategy.   *)
(***************************************************************************)
\* AccountService.isBanExpired
isBanExpired(account, t) ==
    IF ~account.isBanned THEN FALSE
    ELSE IF account.banExpiresAt = None THEN FALSE
    ELSE ValueOf(account.banExpiresAt) <= t

\* getLinkedId: account.linkedId ?? String(account.id)
getLinkedId(account) ==
    IF account.linkedId # None THEN account.linkedId ELSE String(account.id)

\* authenticate once findOrCreate has answered: the expiry test, the ban
\* test, the link, up to the next await.
IdentityAfterAccount(p, c, account) ==
    LET expired == isBanExpired(account, now)
        c1 == BanChecked([c EXCEPT !.account = Some(account)], account,
                         account.isBanned /\ ~expired)
    IN  IF expired
        THEN /\ calls' = [calls EXCEPT ![p] = [c1 EXCEPT !.pc = "unban"]]
             /\ UNCHANGED players
        ELSE IF account.isBanned
        THEN /\ calls' = [calls EXCEPT ![p] =
                    Return(c1, Failure("banned", getLinkedId(account)))]
             /\ UNCHANGED players
        ELSE /\ players' = linkAccount(ValueOf(c.client), getLinkedId(account))
             /\ calls' = [calls EXCEPT ![p] =
                    [c1 EXCEPT !.pc = "touchLastLogin", !.linked = TRUE]]

\* The entry of authenticate: findOrCreate up to its first store query.
IdentityBegin(op, client) ==
    NewCall(op, client, NoCredentials,
            IF PlayerLicense[client] = None THEN "getDefaultRole" ELSE "lookup")

\* authenticate (register delegates to it)
IdentityAuthenticate(p, client) ==
    /\ provider = "identity"
    /\ Free(p)
    /\ nCalls' = nCalls + 1
    /\ calls' = [calls EXCEPT ![p] = IdentityBegin("authenticate", client)]
    /\ UNCHANGED <<provider, autoCreate, accounts, players, now, nonAuthVars>>

\* lookupExisting: the query by priority answers.
IdentityLookedUp(p) ==
    LET c == calls[p]
        found == findByIdentifier(accounts, PlayerLicense[ValueOf(c.client)])
    IN  /\ provider = "identity"
        /\ c.pc = "lookup"
        /\ IF found = None
           THEN /\ calls' = [calls EXCEPT ![p].pc = "lookupFallback"]
                /\ UNCHANGED players
           ELSE IdentityAfterAccount(p, c, ValueOf(found))
        /\ UNCHANGED <<provider, autoCreate, accounts, nCalls, now, nonAuthVars>>

\* lookupExisting: the fallback query answers.
IdentityLookedUpFallback(p) ==
    LET c == calls[p]
        found == findByIdentifier(accounts, PlayerLicense[ValueOf(c.client)])
    IN  /\ provider = "identity"
        /\ c.pc = "lookupFallback"
        /\ IF found = None
           THEN /\ calls' = [calls EXCEPT ![p].pc = "getDefaultRole"]
                /\ UNCHANGED players
           ELSE IdentityAfterAccount(p, c, ValueOf(found))
        /\ UNCHANGED <<provider, autoCreate, accounts, nCalls, now, nonAuthVars>>

\* findOrCreate: roleService.getDefaultRole answers.
IdentityRoleFetched(p) ==
    /\ provider = "identity"
    /\ calls[p].pc = "getDefaultRole"
    /\ calls' = [calls EXCEPT ![p].pc = "createAccount"]
    /\ UNCHANGED <<provider, autoCreate, accounts, players, nCalls, now, nonAuthVars>>

\* findOrCreate: repo.createAccount answers.
IdentityCreated(p) ==
    LET c == calls[p]
        data == [linkedId |-> RandomUUID(accounts),
                 identifier |-> PlayerLicense[ValueOf(c.client)],
                 username |-> None, passwordHash |-> None,
                 roleId |-> Some(DefaultRoleId),
                 lastLoginAt |-> Some(now)]
    IN  /\ provider = "identity"
        /\ c.pc = "createAccount"
        /\ accounts' = Create(accounts, data)
        /\ IdentityAfterAccount(p, [c EXCEPT !.isNew = TRUE], NewAccount(accounts, data))
        /\ UNCHANGED <<provider, autoCreate, nCalls, now, nonAuthVars>>

\* accounts.unban answers authenticate: the ban test passes, the link.
IdentityUnbanned(p) ==
    LET c == calls[p]
        account == [ValueOf(c.account) EXCEPT !.isBanned = FALSE, !.banExpiresAt = None]
    IN  /\ provider = "identity"
        /\ c.pc = "unban"
        /\ accounts' = setBan(accounts, account.id, FALSE, None)
        /\ players' = linkAccount(ValueOf(c.client), getLinkedId(account))
        /\ calls' = [calls EXCEPT ![p] =
                [c EXCEPT !.pc = "touchLastLogin", !.account = Some(account),
                          !.linked = TRUE, !.unbanIssued = TRUE]]
        /\ UNCHANGED <<provider, autoCreate, nCalls, now, nonAuthVars>>

\* accounts.touchLastLogin answers.
IdentityTouched(p) ==
    LET c == calls[p]
        account == ValueOf(c.account)
    IN  /\ provider = "identity"
        /\ c.pc = "touchLastLogin"
        /\ accounts' = updateLastLogin(accounts, account.id, now)
        /\ calls' = [calls EXCEPT ![p] =
                Return(c, Success(getLinkedId(account), None, Some(c.isNew)))]
        /\ UNCHANGED <<provider, autoCreate, players, nCalls, now, nonAuthVars>>

\* validateSession: without a link it authenticates implicitly.
IdentityValidateSession(p, client) ==
    /\ provider = "identity"
    /\ Free(p)
    /\ nCalls' = nCalls + 1
    /\ calls' = [calls EXCEPT ![p] =
            IF players[client] = None
            THEN IF ~autoCreate
                 THEN Return(NewCall("validateSession", client, NoCredentials, "start"),
                             Failure("not authenticated", None))
                 ELSE IdentityBegin("validateSession", client)
            ELSE [NewCall("validateSession", client, NoCredentials, "findByLinkedId")
                    EXCEPT !.accountId = players[client]]]
    /\ UNCHANGED <<provider, autoCreate, accounts, players, now, nonAuthVars>>

\* validateSession: findByLinkedId answers.
IdentityValidated(p) ==
    LET c == calls[p]
        found == findByLinkedId(accounts, c.accountId)
    IN  /\ provider = "identity"
        /\ c.pc = "findByLinkedId"
        /\ calls' = [calls EXCEPT ![p] =
                IF found = None
                THEN Return(c, Failure("account not found", c.accountId))
                ELSE LET a == ValueOf(found)
                         expired == isBanExpired(a, now)
                         c1 == BanChecked([c EXCEPT !.account = found], a,
                                          a.isBanned /\ ~expired)
                     IN  IF expired THEN [c1 EXCEPT !.pc = "unbanSession"]
                         ELSE IF a.isBanned
                         THEN Return(c1, Failure("banned", getLinkedId(a)))
                         ELSE Return(c1, Success(getLinkedId(a), None, None))]
        /\ UNCHANGED <<provider, autoCreate, accounts, players, nCalls, now, nonAuthVars>>

\* validateSession: accounts.unban answers.
IdentitySessionUnbanned(p) ==
    LET c == calls[p]
        account == ValueOf(c.account)
    IN  /\ provider = "identity"
        /\ c.pc = "unbanSession"
        /\ accounts' = setBan(accounts, account.id, FALSE, None)
        /\ calls' = [calls EXCEPT ![p] =
                Return([c EXCEPT !.unbanIssued = TRUE],
                       Success(getLinkedId(account), None, None))]
        /\ UNCHANGED <<provider, autoCreate, players, nCalls, now, nonAuthVars>>

\* logout: clears the session meta, the link stays.
IdentityLogout(p, client) ==
    /\ provider = "identity"
    /\ Free(p)
    /\ nCalls' = nCalls + 1
    /\ calls' = [calls EXCEPT ![p] =
            [NewCall("logout", client, NoCredentials, "done") EXCEPT !.result = None]]
    /\ UNCHANGED <<provider, autoCreate, accounts, players, now, nonAuthVars>>

IdentityNext ==
    \/ \E p \in Procs, k \in Clients : IdentityAuthenticate(p, k)
    \/ \E p \in Procs : IdentityLookedUp(p)
    \/ \E p \in Procs : IdentityLookedUpFallback(p)
    \/ \E p \in Procs : IdentityRoleFetched(p)
    \/ \E p \in Procs : IdentityCreated(p)
    \/ \E p \in Procs : IdentityUnbanned(p)
    \/ \E p \in Procs : IdentityTouched(p)
    \/ \E p \in Procs, k \in Clients : IdentityValidateSession(p, k)
    \/ \E p \in Procs : IdentityValidated(p)
    \/ \E p \in Procs : IdentitySessionUnbanned(p)
    \/ \E p \in Procs, k \in Clients : IdentityLogout(p, k)

(***************************************************************************)
(* Administration (AccountService.ban / unban) and the clock.              *)
(***************************************************************************)
\* ban(accountId, {durationMs})
Ban(id, durationMs) ==
    LET expiresAt == IF durationMs # None /\ ValueOf(durationMs) # 0
                     THEN Some(now + ValueOf(durationMs)) ELSE None
    IN  /\ id \in 1..Len(accounts)
        /\ accounts' = setBan(accounts, id, TRUE, expiresAt)
        /\ UNCHANGED <<provider, autoCreate, players, calls, nCalls, now, nonAuthVars>>

\* unban(accountId)
Unban(id) ==
    /\ id \in 1..Len(accounts)
    /\ accounts' = setBan(accounts, id, FALSE, None)
    /\ UNCHANGED <<provider, autoCreate, players, calls, nCalls, now, nonAuthVars>>

AuthTick ==
    /\ Tick
    /\ UNCHANGED <<authVars, nonAuthVars>>

AdminNext ==
    \/ \E id \in 1..MaxCalls, d \in BanDurations : Ban(id, d)
    \/ \E id \in 1..MaxCalls : Unban(id)
    \/ AuthTick

AuthNext == LocalNext \/ CredentialsNext \/ IdentityNext \/ AdminNext

SpecAuth == AuthInit /\ [][AuthNext]_vars

(***************************************************************************)
(* Principal resolution.  IdentityPrincipalProvider (static roles or role  *)
(* store) with its per-client cache, and the earlier LocalPrincipalProvider.*)
(***************************************************************************)
Resolvers == {"roles", "db", "local"}

\* options.principal.cacheTtl (default 300000 ms), in the model's time unit.
cacheTtl == 1

\* options.principal.defaultRole, which is also the role store's default role.
defaultRole == "user"

RoleIds == {"user", "admin"}

\* The roles as configured (options.principal.roles) or as first stored.
InitialRoles ==
    [r \in RoleIds |->
        IF r = "user" THEN [id |-> "user", rank |-> 1, permissions |-> {<<"a">>}]
        ELSE [id |-> "admin", rank |-> 2, permissions |-> {<<"a">>, <<"b">>}]]

\* options.principal.roles?.[id]: the static table exists in 'roles' mode only.
StaticRole(id) ==
    IF resolver = "roles" /\ id \in DOMAIN roles THEN Some(roles[id]) ELSE None

\* RoleStore.findById(id), and the role joined to an account row.
FindRole(id) == IF id \in DOMAIN roles THEN Some(roles[id]) ELSE None

\* What an administrator writes: a role update, a customPermissions list.
RoleUpdates == {[rank |-> 3, permissions |-> {<<"b">>}]}
CustomPermissionLists == {<<>>, <<Revoke(<<"a">>)>>}

\* The account that the connection is linked to.
LinkedAccount ==
    [id |-> 1, linkedId |-> <<"uuid", 1>>, identifier |-> Some("lic1"),
     username |-> None, passwordHash |-> None, roleId |-> None,
     customPermissions |-> <<>>, isBanned |-> FALSE, banExpiresAt |-> None,
     lastLoginAt |-> None]

\* A slot: position, arguments and locals, the number of store reads made,
\* the outcome, and a record of what the call met: the ban state of the
\* account it read (sawBanned), whether it wrote the cache, whether it began
\* inside the TTL window of an earlier resolution (within, expected) or
\* after it (elapsed), and whether it began after a completed refresh with
\* no store change since (afterRefresh; stale marks a change during it).
IdleResolve ==
    [pc |-> "idle", op |-> "none", client |-> None, linkedId |-> None,
     account |-> None, role |-> None, reads |-> 0, outcome |-> "none", principal |-> None,
     sawBanned |-> None, wroteCache |-> FALSE, within |-> FALSE,
     elapsed |-> FALSE, expected |-> None, afterRefresh |-> FALSE, stale |-> FALSE,
     deadline |-> None, got |-> "none"]

ResolveFree(p) ==
    /\ pcalls[p].pc \in {"idle", "done"}
    /\ \A q \in Procs : q < p => pcalls[q].pc \notin {"idle", "done"}
    /\ nCalls < MaxResolves

NewResolve(op, client) ==
    LET last == resolved[client] IN
    [IdleResolve EXCEPT
        !.op = op, !.client = Some(client),
        !.within = last # None /\ now < ValueOf(last).at + cacheTtl,
        !.elapsed = last # None /\ now >= ValueOf(last).at + cacheTtl,
        !.expected = IF last = None THEN None ELSE Some(ValueOf(last).principal),
        !.afterRefresh = refreshed[client]]

\* The call returns a Principal, returns null, or throws.
Returned(c, principal) ==
    [c EXCEPT !.pc = "done", !.account = None, !.role = None, !.deadline = None,
              !.outcome = IF principal = None THEN "null" ELSE "principal",
              !.principal = principal]
Thrown(c, code) ==
    [c EXCEPT !.pc = "done", !.account = None, !.role = None, !.deadline = None,
              !.outcome = code]

PrincipalInit ==
    /\ resolver \in Resolvers
    /\ roles = InitialRoles
    /\ accounts \in {<<LinkedAccount>>,
                    <<[LinkedAccount EXCEPT !.roleId = Some("admin")]>>}
    /\ players \in {[c \in Clients |-> None], [c \in Clients |-> LinkedAccount.linkedId]}
    /\ cache = [c \in Clients |-> None]
    /\ pcalls = [p \in Procs |-> IdleResolve]
    /\ resolved = [c \in Clients |-> None]
    /\ refreshed = [c \in Clients |-> FALSE]
    /\ nCalls = 0
    /\ now = 0
    /\ provider = "off"
    /\ autoCreate = TRUE
    /\ calls = None
    /\ MergeIdle
    /\ McIdle
    /\ ApiIdle


(***************************************************************************)
(* C1 (provisioning idempotence).  With auto-create on, whatever the       *)
(* interleaving of the local authenticate calls, the store never holds two *)
(* accounts for one primary identifier.                                    *)
(***************************************************************************)
C1_OneAccountPerIdentifier ==
    (provider \in {"local", "identity"} /\ autoCreate) =>
        \A i, j \in 1..Len(accounts) :
            (i # j /\ accounts[i].identifier # None)
                => accounts[i].identifier # accounts[j].identifier

(***************************************************************************)
(* C4 (ban expiry recovery).  An authenticate call that finds the account  *)
(* flagged banned with banExpiresAt < now succeeds and has issued          *)
(* setBan(id, false) by the time it returns.                               *)
(***************************************************************************)
C4_ExpiredBanLifted ==
    \A p \in Procs :
        (calls[p].pc = "done" /\ calls[p].op = "authenticate"
            /\ calls[p].sawRanOut = Some(TRUE))
        => (ValueOf(calls[p].result).success /\ calls[p].unbanIssued)

(***************************************************************************)
(* C7 (link after ban check).  A call whose account is currently banned    *)
(* when the handler tests it never links the connection and returns        *)
(* success = false.                                                        *)
(***************************************************************************)
C7_NoLinkWhenBanned ==
    \A p \in Procs :
        calls[p].sawBanned = Some(TRUE)
        => (/\ ~calls[p].linked
            /\ calls[p].pc = "done" => ~ValueOf(calls[p].result).success)

\* An authenticate call met a currently banned account and has returned.
C7_Witness ==
    \E p \in Procs :
        /\ calls[p].op = "authenticate"
        /\ calls[p].sawBanned = Some(TRUE)
        /\ calls[p].pc = "done"
        /\ ~ValueOf(calls[p].result).success

(***************************************************************************)
(* C8 (ban currency).  Every ban check takes the account for banned        *)
(* exactly when it is flagged banned and banExpiresAt is null or later     *)
(* than now; a ban with banExpiresAt = now counts as expired.              *)
(***************************************************************************)
C8_BanCheckFollowsPolicy ==
    \A p \in Procs :
        calls[p].tookBanned # None => calls[p].tookBanned = calls[p].sawBanned

(***************************************************************************)
(* C9 (secrets).  No AuthResult carries an account with its passwordHash.  *)
(***************************************************************************)
C9_NoPasswordHashInResult ==
    \A p \in Procs :
        (calls[p].result # None /\ ValueOf(calls[p].result).account # None)
        => ValueOf(ValueOf(calls[p].result).account).passwordHash = None

\* ---- IdentityPrincipalProvider ------------------------------------------
\* The Principal that resolvePrincipal builds.
PrincipalOf(linkedId, account, role) ==
    [id |-> linkedId, rank |-> Some(role.rank), roleId |-> Some(role.id),
     permissions |-> mergePermissions(role.permissions, account.customPermissions)]

\* The call goes on to its next await.
Awaiting(p, c, pc) ==
    /\ pcalls' = [pcalls EXCEPT ![p] = [c EXCEPT !.pc = pc]]
    /\ UNCHANGED <<cache, resolved, refreshed>>

\* resolvePrincipal has answered: getPrincipalByLinkedID returns it;
\* getPrincipal caches a Principal and returns.
IppResolved(p, c, principal) ==
    LET client == ValueOf(c.client) IN
    IF c.op = "getPrincipalByLinkedID"
    THEN /\ pcalls' = [pcalls EXCEPT ![p] = Returned(c, principal)]
         /\ UNCHANGED <<cache, resolved, refreshed>>
    ELSE /\ cache' = IF principal = None THEN cache
                     ELSE [cache EXCEPT ![client] =
                             Some([principal |-> ValueOf(principal),
                                   expiresAt |-> now + cacheTtl])]
         /\ resolved' = IF principal = None THEN resolved
                        ELSE [resolved EXCEPT ![client] =
                                Some([principal |-> ValueOf(principal), at |-> now])]
         /\ refreshed' = IF c.op = "refreshPrincipal" /\ ~c.stale
                         THEN [refreshed EXCEPT ![client] = TRUE] ELSE refreshed
         /\ pcalls' = [pcalls EXCEPT ![p] =
                 Returned([c EXCEPT !.wroteCache = principal # None], principal)]

\* resolvePrincipal from the default-role fallback on.
IppAfterRole(p, c, account, role) ==
    LET fallback == IF role # None THEN role ELSE StaticRole(defaultRole) IN
    IF fallback = None /\ resolver = "db"
    THEN Awaiting(p, c, "getDefaultRole")
    ELSE IppResolved(p, c, IF fallback = None THEN None
                           ELSE Some(PrincipalOf(c.linkedId, account, ValueOf(fallback))))

IppAfterAccountDefaultOnly(p, c, account) == IppAfterRole(p, c, account, None)

\* resolvePrincipal once the account is read: the role lookup.
IppAfterAccount(p, c, account) ==
    IF account.roleId # None
    THEN IF resolver = "roles"
         THEN IppAfterRole(p, c, account, StaticRole(ValueOf(account.roleId)))
         ELSE Awaiting(p, c, "findById")
    ELSE IppAfterRole(p, c, account, None)

\* getPrincipal, up to the first await of resolvePrincipal.
IppGetPrincipal(p, client) ==
    LET c == NewResolve("getPrincipal", client)
        cached == cache[client]
    IN  /\ resolver \in {"roles", "db"}
        /\ ResolveFree(p)
        /\ nCalls' = nCalls + 1
        /\ pcalls' = [pcalls EXCEPT ![p] =
                IF cached # None /\ ValueOf(cached).expiresAt > now
                THEN Returned(c, Some(ValueOf(cached).principal))
                ELSE IF players[client] = None THEN Returned(c, None)
                ELSE [c EXCEPT !.pc = "findByLinkedId", !.linkedId = players[client]]]
        /\ UNCHANGED <<resolver, roles, cache, resolved, refreshed, now, accounts,
                       players, provider, autoCreate, calls, mergeVars, mcVars, apiVars>>

\* refreshPrincipal: the eviction, then getPrincipal up to its first await.
IppRefreshPrincipal(p, client) ==
    LET c == NewResolve("refreshPrincipal", client) IN
    /\ resolver \in {"roles", "db"}
    /\ ResolveFree(p)
    /\ nCalls' = nCalls + 1
    /\ cache' = [cache EXCEPT ![client] = None]
    /\ resolved' = [resolved EXCEPT ![client] = None]
    /\ IF players[client] = None
       THEN /\ pcalls' = [pcalls EXCEPT ![p] = Returned(c, None)]
            /\ refreshed' = [refreshed EXCEPT ![client] = TRUE]
       ELSE /\ pcalls' = [pcalls EXCEPT ![p] =
                   [c EXCEPT !.pc = "findByLinkedId", !.linkedId = players[client]]]
            /\ UNCHANGED refreshed
    /\ UNCHANGED <<resolver, roles, now, accounts, players, provider, autoCreate,
                   calls, mergeVars, mcVars, apiVars>>

\* accountStore.findByLinkedId answers.
IppAccountRead(p) ==
    LET c0 == pcalls[p]
        account == findByLinkedId(accounts, c0.linkedId)
        c == [c0 EXCEPT !.reads = @ + 1, !.account = account,
                        !.sawBanned = IF account = None THEN None
                                      ELSE Some(IsCurrentlyBanned(ValueOf(account), now))]
    IN  /\ resolver \in {"roles", "db"}
        /\ c0.pc = "findByLinkedId"
        /\ IF account = None THEN IppResolved(p, c, None)
           ELSE IppAfterAccount(p, c, ValueOf(account))
        /\ UNCHANGED <<resolver, roles, now, accounts, players, nCalls, provider,
                       autoCreate, calls, mergeVars, mcVars, apiVars>>

\* roleStore.findById answers.
IppRoleRead(p) ==
    LET c0 == pcalls[p]
        account == ValueOf(c0.account)
        c == [c0 EXCEPT !.reads = @ + 1]
    IN  /\ resolver = "db"
        /\ c0.pc = "findById"
        /\ IppAfterRole(p, c, account, FindRole(ValueOf(account.roleId)))
        /\ UNCHANGED <<resolver, roles, now, accounts, players, nCalls, provider,
                       autoCreate, calls, mergeVars, mcVars, apiVars>>

\* roleStore.getDefaultRole answers.
IppDefaultRoleRead(p) ==
    LET c0 == pcalls[p]
        c == [c0 EXCEPT !.reads = @ + 1]
    IN  /\ resolver = "db"
        /\ c0.pc = "getDefaultRole"
        /\ IppResolved(p, c, IF FindRole(defaultRole) = None THEN None
                              ELSE Some(PrincipalOf(c.linkedId, ValueOf(c0.account),
                                                    roles[defaultRole])))
        /\ UNCHANGED <<resolver, roles, now, accounts, players, nCalls, provider,
                       autoCreate, calls, mergeVars, mcVars, apiVars>>

\* ---- LocalPrincipalProvider ---------------------------------------------
\* toPrincipal
toPrincipal(account, role) ==
    [id |-> getLinkedId(account),
     rank |-> IF role = None THEN None ELSE Some(ValueOf(role).rank),
     roleId |-> IF role = None THEN None ELSE Some(ValueOf(role).id),
     permissions |-> combinePermissions(
                        IF role = None THEN {} ELSE ValueOf(role).permissions,
                        account.customPermissions)]

\* getPrincipal returns the Principal it built.
LppReturned(p, c, account, role) ==
    LET principal == toPrincipal(account, role) IN
    /\ pcalls' = [pcalls EXCEPT ![p] = Returned(c, Some(principal))]
    /\ resolved' = [resolved EXCEPT ![ValueOf(c.client)] =
                        Some([principal |-> principal, at |-> now])]
    /\ UNCHANGED <<cache, refreshed>>

\* getPrincipal, up to the findByLinkedIdWithRole await.
LppGetPrincipal(p, client) ==
    LET c == NewResolve("getPrincipal", client) IN
    /\ resolver = "local"
    /\ ResolveFree(p)
    /\ nCalls' = nCalls + 1
    /\ pcalls' = [pcalls EXCEPT ![p] =
            IF players[client] = None THEN Thrown(c, "UNAUTHORIZED")
            ELSE [c EXCEPT !.pc = "findByLinkedIdWithRole", !.linkedId = players[client]]]
    /\ UNCHANGED <<resolver, roles, cache, resolved, refreshed, now, accounts,
                   players, provider, autoCreate, calls, mergeVars, mcVars, apiVars>>

\* repo.findByLinkedIdWithRole answers: the expiry test and the ban test.
LppRead(p) ==
    LET c0 == pcalls[p]
        found == findByLinkedId(accounts, c0.linkedId)
        account == ValueOf(found)
        role == IF account.roleId = None THEN None
                ELSE FindRole(ValueOf(account.roleId))
        c == [c0 EXCEPT !.reads = @ + 1, !.account = found, !.role = role,
                        !.sawBanned = IF found = None THEN None
                                      ELSE Some(IsCurrentlyBanned(account, now))]
    IN  /\ resolver = "local"
        /\ c0.pc = "findByLinkedIdWithRole"
        /\ IF found = None
           THEN /\ pcalls' = [pcalls EXCEPT ![p] = Thrown(c, "UNAUTHORIZED")]
                /\ UNCHANGED <<cache, resolved, refreshed>>
           ELSE IF isBanExpired(account, now) THEN Awaiting(p, c, "unban")
           ELSE IF account.isBanned
           THEN /\ pcalls' = [pcalls EXCEPT ![p] = Thrown(c, "PERMISSION_DENIED")]
                /\ UNCHANGED <<cache, resolved, refreshed>>
           ELSE LppReturned(p, c, account, role)
        /\ UNCHANGED <<resolver, roles, now, accounts, players, nCalls, provider,
                       autoCreate, calls, mergeVars, mcVars, apiVars>>

\* accounts.unban answers.
LppUnbanned(p) ==
    LET c == pcalls[p]
        account == ValueOf(c.account)
    IN  /\ resolver = "local"
        /\ c.pc = "unban"
        /\ accounts' = setBan(accounts, account.id, FALSE, None)
        /\ LppReturned(p, c, [account EXCEPT !.isBanned = FALSE], c.role)
        /\ UNCHANGED <<resolver, roles, now, players, nCalls, provider,
                       autoCreate, calls, mergeVars, mcVars, apiVars>>

\* ---- changes of roles and permissions -----------------------------------
\* The store changed: results and refreshes obtained before are outdated.
StoreChanged ==
    /\ refreshed' = [c \in Clients |-> FALSE]
    /\ pcalls' = [p \in Procs |->
            IF pcalls[p].pc = "idle" THEN pcalls[p]
            ELSE [pcalls[p] EXCEPT !.stale = TRUE, !.afterRefresh = FALSE]]

\* AccountService.assignRole
AssignRole(id, roleId) ==
    /\ id \in 1..Len(accounts)
    /\ accounts[id].roleId # Some(roleId)
    /\ accounts' = [accounts EXCEPT ![id].roleId = Some(roleId)]
    /\ StoreChanged
    /\ UNCHANGED <<resolver, roles, cache, resolved, now, players, nCalls,
                   provider, autoCreate, calls, mergeVars, mcVars, apiVars>>

\* store.update(id, {customPermissions})
UpdateCustomPermissions(id, permissions) ==
    /\ id \in 1..Len(accounts)
    /\ accounts[id].customPermissions # permissions
    /\ accounts' = [accounts EXCEPT ![id].customPermissions = permissions]
    /\ StoreChanged
    /\ UNCHANGED <<resolver, roles, cache, resolved, now, players, nCalls,
                   provider, autoCreate, calls, mergeVars, mcVars, apiVars>>

\* RoleStore.update(id, {rank, permissions})
RoleUpdate(id, data) ==
    /\ resolver # "roles"
    /\ roles[id].rank # data.rank \/ roles[id].permissions # data.permissions
    /\ roles' = [roles EXCEPT ![id].rank = data.rank,
                              ![id].permissions = data.permissions]
    /\ StoreChanged
    /\ UNCHANGED <<resolver, cache, resolved, now, accounts, players, nCalls,
                   provider, autoCreate, calls, mergeVars, mcVars, apiVars>>

\* The resolvers against bans and the clock.
\* ---- getPrincipalByLinkedID ----------------------------------------------
\* The linked ids asked for: that of the stored account, and an unknown one.
LinkedIds == {LinkedAccount.linkedId, <<"uuid", 2>>}

\* IdentityPrincipalProvider.getPrincipalByLinkedID, up to the first await
\* of resolvePrincipal.
IppGetPrincipalByLinkedID(p, linkedID) ==
    /\ resolver \in {"roles", "db"}
    /\ ResolveFree(p)
    /\ nCalls' = nCalls + 1
    /\ pcalls' = [pcalls EXCEPT ![p] =
            [IdleResolve EXCEPT !.op = "getPrincipalByLinkedID",
                                !.pc = "findByLinkedId", !.linkedId = linkedID]]
    /\ UNCHANGED <<resolver, roles, cache, resolved, refreshed, now, accounts,
                   players, provider, autoCreate, calls, mergeVars, mcVars, apiVars>>

\* LocalPrincipalProvider.getPrincipalByLinkedID, up to its await.
LppGetPrincipalByLinkedID(p, linkedID) ==
    /\ resolver = "local"
    /\ ResolveFree(p)
    /\ nCalls' = nCalls + 1
    /\ pcalls' = [pcalls EXCEPT ![p] =
            [IdleResolve EXCEPT !.op = "getPrincipalByLinkedID",
                                !.pc = "byLinkedID", !.linkedId = linkedID]]
    /\ UNCHANGED <<resolver, roles, cache, resolved, refreshed, now, accounts,
                   players, provider, autoCreate, calls, mergeVars, mcVars, apiVars>>

\* repo.findByLinkedIdWithRole answers getPrincipalByLinkedID.
LppReadByLinkedID(p) ==
    LET c0 == pcalls[p]
        found == findByLinkedId(accounts, c0.linkedId)
        account == ValueOf(found)
        role == IF account.roleId = None THEN None
                ELSE FindRole(ValueOf(account.roleId))
        c == [c0 EXCEPT !.reads = @ + 1]
    IN  /\ resolver = "local"
        /\ c0.pc = "byLinkedID"
        /\ pcalls' = [pcalls EXCEPT ![p] =
                IF found = None THEN Returned(c, None)
                ELSE IF account.isBanned THEN Returned(c, None)
                ELSE Returned(c, Some(toPrincipal(account, role)))]
        /\ UNCHANGED <<resolver, roles, cache, resolved, refreshed, now, accounts,
                       players, nCalls, provider, autoCreate, calls, mergeVars,
                       mcVars, apiVars>>

\* Role resolution over the stores as they can be found: the account's
\* roleId empty, naming a role, or naming none; the default role present
\* or not.
RoleTables == {InitialRoles, [r \in {"admin"} |-> InitialRoles[r]]}

ResolveInit ==
    /\ resolver \in Resolvers
    /\ roles \in RoleTables
    /\ accounts \in {<<[LinkedAccount EXCEPT !.roleId = r,
                                            !.customPermissions = custom]>> :
                        r \in {None, Some("admin"), Some("gone")},
                        custom \in CustomPermissionLists}
    /\ players \in {[c \in Clients |-> None], [c \in Clients |-> LinkedAccount.linkedId]}
    /\ cache = [c \in Clients |-> None]
    /\ pcalls = [p \in Procs |-> IdleResolve]
    /\ resolved = [c \in Clients |-> None]
    /\ refreshed = [c \in Clients |-> FALSE]
    /\ nCalls = 0
    /\ now = 0
    /\ provider = "off"
    /\ autoCreate = TRUE
    /\ calls = None
    /\ MergeIdle
    /\ McIdle
    /\ ApiIdle

ResolveNext ==
    \/ \E p \in Procs, k \in Clients : IppGetPrincipal(p, k)
    \/ \E p \in Procs, k \in Clients : IppRefreshPrincipal(p, k)
    \/ \E p \in Procs, l \in LinkedIds : IppGetPrincipalByLinkedID(p, l)
    \/ \E p \in Procs : IppAccountRead(p)
    \/ \E p \in Procs : IppRoleRead(p)
    \/ \E p \in Procs : IppDefaultRoleRead(p)
    \/ \E p \in Procs, l \in LinkedIds : LppGetPrincipalByLinkedID(p, l)
    \/ \E p \in Procs : LppReadByLinkedID(p)

SpecResolve == ResolveInit /\ [][ResolveNext]_vars

PrincipalNext ==
    \/ \E p \in Procs, k \in Clients : IppGetPrincipal(p, k)
    \/ \E p \in Procs, k \in Clients : IppRefreshPrincipal(p, k)
    \/ \E p \in Procs : IppAccountRead(p)
    \/ \E p \in Procs : IppRoleRead(p)
    \/ \E p \in Procs : IppDefaultRoleRead(p)
    \/ \E p \in Procs, k \in Clients : LppGetPrincipal(p, k)
    \/ \E p \in Procs : LppRead(p)
    \/ \E p \in Procs : LppUnbanned(p)
    \/ AdminNext

SpecPrincipal == PrincipalInit /\ [][PrincipalNext]_vars

\* IdentityPrincipalProvider against changes of roles and permissions.
RefreshInit == PrincipalInit /\ resolver \in {"roles", "db"}

RefreshNext ==
    \/ \E p \in Procs, k \in Clients : IppGetPrincipal(p, k)
    \/ \E p \in Procs, k \in Clients : IppRefreshPrincipal(p, k)
    \/ \E p \in Procs : IppAccountRead(p)
    \/ \E p \in Procs : IppRoleRead(p)
    \/ \E p \in Procs : IppDefaultRoleRead(p)
    \/ \E id \in 1..MaxCalls, r \in RoleIds : AssignRole(id, r)
    \/ \E id \in 1..MaxCalls, l \in CustomPermissionLists : UpdateCustomPermissions(id, l)
    \/ \E r \in RoleIds, d \in RoleUpdates : RoleUpdate(r, d)
    \/ AuthTick

SpecRefresh == RefreshInit /\ [][RefreshNext]_vars

\* What resolvePrincipal yields on the store as it stands.
ResolveNow(linkedId) ==
    LET found == findByLinkedId(accounts, linkedId)
        account == ValueOf(found)
        role == IF account.roleId = None THEN None
                ELSE IF resolver = "roles" THEN StaticRole(ValueOf(account.roleId))
                ELSE Some(roles[ValueOf(account.roleId)])
        fallback == IF role # None THEN role
                    ELSE IF resolver = "roles" THEN StaticRole(defaultRole)
                    ELSE Some(roles[defaultRole])
    IN  IF found = None THEN None
        ELSE Some(PrincipalOf(linkedId, account, ValueOf(fallback)))

(***************************************************************************)
(* C3 (no Principal for a banned account).  A getPrincipal or              *)
(* refreshPrincipal that misses the cache and reads an account that is     *)
(* currently banned fails with PERMISSION_DENIED and writes no cache entry.*)
(***************************************************************************)
C3_BannedNeverResolved ==
    \A p \in Procs :
        (pcalls[p].pc = "done" /\ pcalls[p].sawBanned = Some(TRUE))
        => (pcalls[p].outcome = "PERMISSION_DENIED" /\ ~pcalls[p].wroteCache)

(***************************************************************************)
(* C5 (cache TTL).  A getPrincipal that begins before t + cacheTtl, where  *)
(* t is when a Principal was last resolved for the connection, returns     *)
(* that Principal at once and reads no store; one that begins at or after  *)
(* t + cacheTtl and yields a Principal has read the store.                 *)
(***************************************************************************)
C5_CacheServesWithinTtl ==
    \A p \in Procs :
        pcalls[p].op = "getPrincipal"
        => /\ pcalls[p].within
                => (/\ pcalls[p].pc = "done"
                    /\ pcalls[p].reads = 0
                    /\ pcalls[p].principal = pcalls[p].expected)
           /\ (pcalls[p].elapsed /\ pcalls[p].outcome = "principal")
                => pcalls[p].reads > 0

(***************************************************************************)
(* C6 (refresh invalidation).  Once the store has changed and a            *)
(* refreshPrincipal for the connection has completed after that, the next  *)
(* getPrincipal yields the Principal computed from the changed store.      *)
(***************************************************************************)
C6_RefreshShowsChange ==
    resolver \in {"roles", "db"} =>
        \A p \in Procs :
            (pcalls[p].op = "getPrincipal" /\ pcalls[p].pc = "done"
                /\ pcalls[p].afterRefresh)
            => pcalls[p].principal = ResolveNow(players[ValueOf(pcalls[p].client)])

(***************************************************************************)
(* C11 (auto-create disabled).  With auto-create off, a local authenticate *)
(* for an identifier that has no account fails: the store stays without    *)
(* accounts, no connection is linked, and no authenticate succeeds.        *)
(***************************************************************************)
C11_NoProvisionWhenDisabled ==
    (provider \in {"local", "identity"} /\ ~autoCreate) =>
        /\ accounts = <<>>
        /\ \A k \in Clients : players[k] = None
        /\ \A p \in Procs :
            (calls[p].op = "authenticate" /\ calls[p].pc = "done")
            => ~ValueOf(calls[p].result).success

(***************************************************************************)
(* C12 (what auto-create writes).  Every account that a local authenticate *)
(* created carries a linked identifier of its own, different from that of  *)
(* every other account, and the default role as its roleId.                *)
(***************************************************************************)
C12_CreatedWithLinkedIdAndDefaultRole ==
    provider \in {"local", "identity"} =>
        \A i \in 1..Len(accounts) :
            /\ accounts[i].linkedId # None
            /\ accounts[i].roleId = Some(DefaultRoleId)
            /\ \A j \in 1..Len(accounts) :
                i # j => accounts[i].linkedId # accounts[j].linkedId

(***************************************************************************)
(* C13 (connect scenario).  Local mode with auto-create on, one            *)
(* identifier: the authenticate calls create one account between them, at  *)
(* most one of them reports isNewAccount = true, and all of them return    *)
(* that one account.                                                       *)
(***************************************************************************)
C13_FirstCreatesLaterReuse ==
    (provider = "local" /\ autoCreate) =>
        /\ Len(accounts) <= 1
        /\ \A p, q \in Procs :
            (/\ p # q
             /\ calls[p].op = "authenticate" /\ calls[p].pc = "done"
             /\ calls[q].op = "authenticate" /\ calls[q].pc = "done"
             /\ ValueOf(calls[p].result).success
             /\ ValueOf(calls[q].result).success)
            => /\ ValueOf(calls[p].result).accountID = ValueOf(calls[q].result).accountID
               /\ ~(/\ ValueOf(calls[p].result).isNewAccount = Some(TRUE)
                    /\ ValueOf(calls[q].result).isNewAccount = Some(TRUE))

(***************************************************************************)
(* C14 (credentials outcomes).  A credentials authenticate that finds no   *)
(* account for the username, or whose password does not match the stored   *)
(* hash, returns the failure 'invalid credentials' and leaves the links as *)
(* they are; one whose password matches the hash of an account that is not *)
(* banned succeeds and links that account.                                 *)
(***************************************************************************)
C14_CredentialOutcomes ==
    [][\A p \in Procs :
        (/\ provider = "credentials"
         /\ calls[p].op = "authenticate"
         /\ calls[p].pc \in {"findByUsername", "compare"}
         /\ calls'[p].pc = "done")
        => LET c == calls[p]
               r == ValueOf(calls'[p].result)
               matches == BcryptCompare(ValueOf(c.credentials.password),
                                        ValueOf(ValueOf(c.account).passwordHash))
           IN  /\ (c.pc = "findByUsername" \/ ~matches)
                    => (~r.success /\ r.error = "invalid credentials" /\ players' = players)
               /\ (c.pc = "compare" /\ matches /\ ~ValueOf(c.account).isBanned)
                    => (/\ r.success
                        /\ players'[ValueOf(c.client)] = String(ValueOf(c.account).id))
      ]_vars

(***************************************************************************)
(* C15 (authenticate never provisions).  No step of a credentials          *)
(* authenticate changes the accounts of the store.                         *)
(***************************************************************************)
C15_AuthenticateNeverCreates ==
    [][\A p \in Procs :
        (/\ provider = "credentials"
         /\ calls'[p] # calls[p]
         /\ calls'[p].op = "authenticate")
        => accounts' = accounts
      ]_vars

\* An authenticate for a username that has no account has returned.
C15_Witness ==
    \E p \in Procs :
        /\ provider = "credentials"
        /\ calls[p].op = "authenticate"
        /\ calls[p].pc = "done"
        /\ ValueOf(calls[p].result).error = "account not found"
        /\ accounts = <<>>

(***************************************************************************)
(* C16 (username taken).  A credentials register whose findByUsername      *)
(* finds an account returns the failure 'username taken' in that step,     *)
(* with the accounts and the links unchanged.                              *)
(***************************************************************************)
C16_RegisterTakenUsername ==
    [][\A p \in Procs :
        (/\ provider = "credentials"
         /\ calls[p].op = "register"
         /\ calls[p].pc = "findByUsername"
         /\ findByUsername(accounts, calls[p].credentials.username) # None
         /\ calls'[p] # calls[p])
        => /\ calls'[p].pc = "done"
           /\ ~ValueOf(calls'[p].result).success
           /\ ValueOf(calls'[p].result).error = "username taken"
           /\ accounts' = accounts
           /\ players' = players
      ]_vars

\* A register for the username of the one account has returned.
C16_Witness ==
    \E p \in Procs :
        /\ provider = "credentials"
        /\ calls[p].op = "register"
        /\ calls[p].pc = "done"
        /\ ValueOf(calls[p].result).error = "username taken"
        /\ Len(accounts) = 1

(***************************************************************************)
(* C17 (link and last login).  Every authenticate that returned success    *)
(* linked the connection, and the account it returned has a last-login     *)
(* time in the store.                                                      *)
(***************************************************************************)
C17_SuccessLinksAndStampsLogin ==
    \A p \in Procs :
        (/\ calls[p].op = "authenticate"
         /\ calls[p].pc = "done"
         /\ ValueOf(calls[p].result).success)
        => LET row == findByLinkedId(accounts, ValueOf(calls[p].result).accountID)
           IN  /\ calls[p].linked
               /\ row # None
               /\ ValueOf(row).lastLoginAt # None

(***************************************************************************)
(* The API-backed strategy and resolver: ApiAuthProvider and               *)
(* ApiPrincipalProvider over fetch, and their earlier drafts (Svc) over    *)
(* the framework's HttpService, which rejects when the request fails.      *)
(***************************************************************************)
\* identity_api_timeout when the convar is not set (5000 ms), in the
\* model's time unit.
defaultTimeoutMs == 1

ApiProviders == {"api", "apiSvc"}

\* The account id the remote service answers with: a string, which
\* String() leaves as it is.
ExternalId == <<"ext", 1>>
ExternalIds == {ExternalId}

\* `principal:${linked}`, the key of the MemoryCacheService entry.
PrincipalKey == [id \in ExternalIds |-> "principal:ext1"]

\* What the remote auth service answers: a rejected fetch (throws), a
\* status outside 2xx (ok = FALSE), or a body.
NoBody == [throws |-> FALSE, ok |-> FALSE, success |-> None, accountId |-> None,
           error |-> None]
AuthResponses ==
    {[NoBody EXCEPT !.throws = TRUE],
     NoBody,
     [NoBody EXCEPT !.ok = TRUE, !.success = Some(FALSE)],
     [NoBody EXCEPT !.ok = TRUE, !.success = Some(FALSE), !.error = Some("denied")],
     [NoBody EXCEPT !.ok = TRUE, !.success = Some(FALSE), !.accountId = Some(ExternalId)],
     [NoBody EXCEPT !.ok = TRUE, !.success = Some(TRUE)],
     [NoBody EXCEPT !.ok = TRUE, !.success = Some(TRUE), !.accountId = Some(ExternalId)]}

\* The request threw, timed out, came back outside 2xx, or carried
\* success = false or no account id.
RequestFailed(r) ==
    r.throws \/ ~r.ok \/ r.success # Some(TRUE) \/ r.accountId = None

ApiInit ==
    /\ provider \in ApiProviders
    /\ resolver = provider
    /\ api \in (IF provider = "api"
                THEN [baseUrl : BOOLEAN, timeoutMs : {None, Some(defaultTimeoutMs)},
                      allowFallback : BOOLEAN]
                ELSE [baseUrl : {TRUE}, timeoutMs : {Some(defaultTimeoutMs)},
                      allowFallback : BOOLEAN])
    /\ authCache = [id \in ExternalIds |-> None]
    /\ players = [c \in Clients |-> None]
    /\ calls = [p \in Procs |-> IdleCall]
    /\ pcalls = [p \in Procs |-> IdleResolve]
    /\ cache = [c \in Clients \cup {PrincipalKey[id] : id \in ExternalIds} |-> None]
    /\ resolved = [c \in Clients |-> None]
    /\ refreshed = [c \in Clients |-> FALSE]
    /\ roles = InitialRoles
    /\ accounts = <<>>
    /\ autoCreate = TRUE
    /\ nCalls = 0
    /\ now = 0
    /\ MergeIdle
    /\ McIdle

\* getAbortSignal: the time at which the abort timer fires, if one is set.
getAbortSignal(timeoutMs, t) ==
    IF timeoutMs = None \/ ValueOf(timeoutMs) <= 0 THEN None
    ELSE Some(t + ValueOf(timeoutMs))

\* The clock of the model reaches every timer that is set.
TimerInRange(deadline) ==
    IF deadline = None THEN TRUE ELSE ValueOf(deadline) <= MaxTime

\* !data.success || !data.accountId, negated
AuthAcceptedWithoutSuccess(r) == r.accountId # None
AuthAccepted(r) == r.success = Some(TRUE) /\ r.accountId # None

\* ---- ApiAuthProvider ---------------------------------------------------
\* authenticate / register / validateSession / logout: requestAuth up to
\* the fetch.
ApiRequestAuth(p, client, op) ==
    LET deadline == getAbortSignal(api.timeoutMs, now) IN
    /\ provider = "api"
    /\ Free(p)
    /\ TimerInRange(deadline)
    /\ nCalls' = nCalls + 1
    /\ calls' = [calls EXCEPT ![p] =
            IF ~api.baseUrl
            THEN Return(NewCall(op, client, NoCredentials, "start"),
                        Failure("API auth is not configured", None))
            ELSE [NewCall(op, client, NoCredentials, "fetch")
                    EXCEPT !.requests = 1, !.deadline = deadline]]
    /\ UNCHANGED <<provider, autoCreate, accounts, players, now, nonAuthVars>>

\* fetch answers (the body is read in the same step).
ApiAuthResponded(p, r) ==
    LET c == [calls[p] EXCEPT !.got = IF RequestFailed(r) THEN "failed" ELSE "ok"]
        client == ValueOf(c.client)
    IN  /\ provider = "api"
        /\ c.pc = "fetch"
        /\ IF r.throws
           THEN /\ calls' = [calls EXCEPT ![p] = Return(c, Failure("API auth error", None))]
                /\ UNCHANGED players
           ELSE IF ~r.ok
           THEN /\ calls' = [calls EXCEPT ![p] = Return(c, Failure("API auth failed", None))]
                /\ UNCHANGED players
           ELSE IF ~AuthAccepted(r)
           THEN /\ calls' = [calls EXCEPT ![p] =
                        Return(c, Failure(IF r.error # None THEN ValueOf(r.error)
                                          ELSE "Authentication rejected", None))]
                /\ UNCHANGED players
           ELSE IF c.op = "logout"
           THEN /\ players' = unlinkAccount(client)
                /\ calls' = [calls EXCEPT ![p] =
                        Return(c, Success(ValueOf(r.accountId), None, None))]
           ELSE /\ players' = linkAccount(client, ValueOf(r.accountId))
                /\ calls' = [calls EXCEPT ![p] =
                        Return([c EXCEPT !.linked = TRUE],
                               Success(ValueOf(r.accountId), None, None))]
        /\ UNCHANGED <<provider, autoCreate, accounts, nCalls, now, nonAuthVars>>

\* The abort timer fires: fetch (or HttpService) rejects, the catch returns.
ApiAuthAborted(p) ==
    LET c == calls[p] IN
    /\ provider \in ApiProviders
    /\ c.pc = "fetch"
    /\ c.deadline # None
    /\ now >= ValueOf(c.deadline)
    /\ calls' = [calls EXCEPT ![p] =
            Return([c EXCEPT !.got = "timeout"], Failure("aborted", None))]
    /\ UNCHANGED <<provider, autoCreate, accounts, players, nCalls, now, nonAuthVars>>

\* ---- ApiAuthProvider (Svc) ---------------------------------------------
\* authenticate (register delegates to it), up to http.post.
ApiSvcAuthenticate(p, client) ==
    LET deadline == Some(now + ValueOf(api.timeoutMs)) IN
    /\ provider = "apiSvc"
    /\ Free(p)
    /\ TimerInRange(deadline)
    /\ nCalls' = nCalls + 1
    /\ calls' = [calls EXCEPT ![p] =
            [NewCall("authenticate", client, NoCredentials, "fetch")
                EXCEPT !.requests = 1, !.deadline = deadline]]
    /\ UNCHANGED <<provider, autoCreate, accounts, players, now, nonAuthVars>>

\* http.post answers or rejects.
ApiSvcAuthResponded(p, r) ==
    LET c == [calls[p] EXCEPT !.got = IF RequestFailed(r) THEN "failed" ELSE "ok"]
        client == ValueOf(c.client)
    IN  /\ provider = "apiSvc"
        /\ c.pc = "fetch"
        /\ IF r.throws \/ ~r.ok
           THEN /\ calls' = [calls EXCEPT ![p] =
                        Return(c, Failure("API authentication failed", None))]
                /\ UNCHANGED <<players, authCache>>
           ELSE IF ~AuthAccepted(r)
           THEN /\ calls' = [calls EXCEPT ![p] =
                        Return(c, Failure(IF r.error # None THEN ValueOf(r.error)
                                          ELSE "Authentication failed", None))]
                /\ UNCHANGED <<players, authCache>>
           ELSE /\ authCache' = [authCache EXCEPT ![ValueOf(r.accountId)] =
                        Some([linkedId |-> ValueOf(r.accountId),
                              expiresAt |-> now + cacheTtl])]
                /\ players' = linkAccount(client, ValueOf(r.accountId))
                /\ calls' = [calls EXCEPT ![p] =
                        Return([c EXCEPT !.linked = TRUE],
                               Success(ValueOf(r.accountId), None, Some(FALSE)))]
        /\ UNCHANGED <<provider, autoCreate, accounts, nCalls, now, mergeVars,
                       mcVars, principalVars, api>>

\* validateSession: the cache is looked at, the linked id is trusted.
ApiSvcValidateSession(p, client) ==
    LET linked == players[client]
        entry == authCache[linked]
    IN  /\ provider = "apiSvc"
        /\ Free(p)
        /\ nCalls' = nCalls + 1
        /\ calls' = [calls EXCEPT ![p] =
                Return(NewCall("validateSession", client, NoCredentials, "start"),
                       IF linked = None THEN Failure("Not authenticated", None)
                       ELSE Success(linked, None, None))]
        /\ authCache' = IF linked # None /\ entry # None
                           /\ McIsExpired(ValueOf(entry), now)
                        THEN [authCache EXCEPT ![linked] = None]
                        ELSE authCache
        /\ UNCHANGED <<provider, autoCreate, accounts, players, now, mergeVars,
                       mcVars, principalVars, api>>

\* logout: the cache entry goes, the session meta is cleared, the link stays.
ApiSvcLogout(p, client) ==
    LET linked == players[client] IN
    /\ provider = "apiSvc"
    /\ Free(p)
    /\ nCalls' = nCalls + 1
    /\ calls' = [calls EXCEPT ![p] =
            [NewCall("logout", client, NoCredentials, "done") EXCEPT !.result = None]]
    /\ authCache' = IF linked # None THEN [authCache EXCEPT ![linked] = None]
                    ELSE authCache
    /\ UNCHANGED <<provider, autoCreate, accounts, players, now, mergeVars,
                   mcVars, principalVars, api>>

ApiAuthNext ==
    \/ \E p \in Procs, k \in Clients,
          op \in {"authenticate", "register", "validateSession", "logout"} :
            ApiRequestAuth(p, k, op)
    \/ \E p \in Procs, r \in AuthResponses : ApiAuthResponded(p, r)
    \/ \E p \in Procs : ApiAuthAborted(p)
    \/ \E p \in Procs, k \in Clients : ApiSvcAuthenticate(p, k)
    \/ \E p \in Procs, r \in AuthResponses : ApiSvcAuthResponded(p, r)
    \/ \E p \in Procs, k \in Clients : ApiSvcValidateSession(p, k)
    \/ \E p \in Procs, k \in Clients : ApiSvcLogout(p, k)

\* ---- ApiPrincipalProvider ----------------------------------------------
\* What the remote principal service answers: a rejected fetch, a status
\* outside 2xx, or a body, flattened or with a nested principal.
FlatBody ==
    [throws |-> FALSE, ok |-> TRUE, success |-> None, principal |-> None,
     id |-> Some(ExternalId), rank |-> None, permissions |-> Some({<<"a">>})]
NestedPrincipal ==
    [id |-> ExternalId, rank |-> Some(2), roleId |-> None, permissions |-> {<<"b">>}]

PrincipalResponses ==
    {[FlatBody EXCEPT !.throws = TRUE, !.ok = FALSE],
     [FlatBody EXCEPT !.ok = FALSE],
     [FlatBody EXCEPT !.success = Some(FALSE)],
     FlatBody,
     [FlatBody EXCEPT !.id = None],
     [FlatBody EXCEPT !.permissions = None],
     [FlatBody EXCEPT !.principal = Some(NestedPrincipal), !.id = None,
                      !.permissions = None],
     [FlatBody EXCEPT !.principal = Some([NestedPrincipal EXCEPT !.id = None]),
                      !.id = None, !.permissions = None]}

\* The external principal call failed: it rejected or came back outside 2xx.
PrincipalCallFailed(r) == r.throws \/ ~r.ok

\* A 2xx body whose principal data, nested or flattened, has no id or no
\* permissions array.
PrincipalDataInvalid(r) ==
    /\ ~r.throws /\ r.ok
    /\ IF r.principal # None THEN ValueOf(r.principal).id = None
       ELSE r.id = None \/ r.permissions = None

\* How the request ended, as the slot records it.
PrincipalGot(r) ==
    IF PrincipalCallFailed(r) THEN "failed"
    ELSE IF PrincipalDataInvalid(r) THEN "invalid" ELSE "ok"

normalizePrincipal(data) ==
    IF data.principal # None THEN data.principal
    ELSE IF data.id = None \/ data.permissions = None THEN None
    ELSE Some([id |-> ValueOf(data.id),
               rank |-> IF data.rank = None THEN Some(0) ELSE data.rank,
               roleId |-> None,
               permissions |-> ValueOf(data.permissions)])

\* fetchPrincipal from the answer on.
fetchPrincipal(r) ==
    IF r.throws \/ ~r.ok \/ r.success = Some(FALSE) THEN None
    ELSE normalizePrincipal(r)

\* getPrincipal, up to the fetch.
ApiGetPrincipal(p, client) ==
    LET c == NewResolve("getPrincipal", client)
        cached == cache[client]
        deadline == getAbortSignal(api.timeoutMs, now)
    IN  /\ resolver = "api"
        /\ ResolveFree(p)
        /\ TimerInRange(deadline)
        /\ nCalls' = nCalls + 1
        /\ pcalls' = [pcalls EXCEPT ![p] =
                IF cached # None /\ ValueOf(cached).expiresAt > now
                THEN Returned(c, Some(ValueOf(cached).principal))
                ELSE IF players[client] = None \/ ~api.baseUrl THEN Returned(c, None)
                ELSE [c EXCEPT !.pc = "fetch", !.linkedId = players[client],
                               !.reads = 1, !.deadline = deadline]]
        /\ UNCHANGED <<resolver, roles, cache, resolved, refreshed, now, accounts,
                       players, provider, autoCreate, calls, mergeVars, mcVars, apiVars>>

\* refreshPrincipal: the eviction, then getPrincipal up to the fetch.
ApiRefreshPrincipal(p, client) ==
    LET c == NewResolve("refreshPrincipal", client)
        deadline == getAbortSignal(api.timeoutMs, now)
    IN  /\ resolver = "api"
        /\ ResolveFree(p)
        /\ TimerInRange(deadline)
        /\ nCalls' = nCalls + 1
        /\ cache' = [cache EXCEPT ![client] = None]
        /\ resolved' = [resolved EXCEPT ![client] = None]
        /\ pcalls' = [pcalls EXCEPT ![p] =
                IF players[client] = None \/ ~api.baseUrl THEN Returned(c, None)
                ELSE [c EXCEPT !.pc = "fetch", !.linkedId = players[client],
                               !.reads = 1, !.deadline = deadline]]
        /\ UNCHANGED <<resolver, roles, refreshed, now, accounts, players, provider,
                       autoCreate, calls, mergeVars, mcVars, apiVars>>

\* fetch answers: fetchPrincipal returns, getPrincipal caches and returns.
ApiPrincipalResponded(p, r) ==
    LET c == [pcalls[p] EXCEPT
                !.got = PrincipalGot(r)]
    IN  /\ resolver = "api"
        /\ c.pc = "fetch"
        /\ IppResolved(p, c, fetchPrincipal(r))
        /\ UNCHANGED <<resolver, roles, now, authVars, mergeVars, mcVars, apiVars>>

\* The abort timer fires: fetch rejects with AbortError, the catch returns null.
ApiPrincipalAborted(p) ==
    LET c == [pcalls[p] EXCEPT !.got = "timeout"] IN
    /\ resolver = "api"
    /\ c.pc = "fetch"
    /\ c.deadline # None
    /\ now >= ValueOf(c.deadline)
    /\ IppResolved(p, c, None)
    /\ UNCHANGED <<resolver, roles, now, authVars, mergeVars, mcVars, apiVars>>

\* ---- ApiPrincipalProvider (Svc) ----------------------------------------
\* config.getBoolean("identity_api_allow_fallback", false)
FallbackAllowed(cfg) == cfg.allowFallback

\* cache.get(`principal:${linked}`) of the MemoryCacheService
ApiSvcCached(linked) ==
    IF cache[PrincipalKey[linked]] # None /\ ~McIsExpired(ValueOf(cache[PrincipalKey[linked]]), now)
    THEN Some(ValueOf(cache[PrincipalKey[linked]]).principal)
    ELSE None

\* getPrincipal, up to http.get.
ApiSvcGetPrincipal(p, client) ==
    LET c == NewResolve("getPrincipal", client)
        linked == players[client]
        deadline == Some(now + ValueOf(api.timeoutMs))
    IN  /\ resolver = "apiSvc"
        /\ ResolveFree(p)
        /\ TimerInRange(deadline)
        /\ nCalls' = nCalls + 1
        /\ pcalls' = [pcalls EXCEPT ![p] =
                IF linked = None THEN Thrown(c, "UNAUTHORIZED")
                ELSE IF ApiSvcCached(linked) # None
                THEN Returned(c, ApiSvcCached(linked))
                ELSE [c EXCEPT !.pc = "fetch", !.linkedId = linked,
                               !.reads = 1, !.deadline = deadline]]
        /\ cache' = IF linked # None /\ cache[PrincipalKey[linked]] # None
                       /\ ApiSvcCached(linked) = None
                    THEN [cache EXCEPT ![PrincipalKey[linked]] = None] ELSE cache
        /\ UNCHANGED <<resolver, roles, resolved, refreshed, now, accounts,
                       players, provider, autoCreate, calls, mergeVars, mcVars, apiVars>>

\* refreshPrincipal: the eviction, then getPrincipal up to http.get.
ApiSvcRefreshPrincipal(p, client) ==
    LET c == NewResolve("refreshPrincipal", client)
        linked == players[client]
        deadline == Some(now + ValueOf(api.timeoutMs))
    IN  /\ resolver = "apiSvc"
        /\ ResolveFree(p)
        /\ TimerInRange(deadline)
        /\ nCalls' = nCalls + 1
        /\ pcalls' = [pcalls EXCEPT ![p] =
                IF linked = None THEN Thrown(c, "UNAUTHORIZED")
                ELSE [c EXCEPT !.pc = "fetch", !.linkedId = linked,
                               !.reads = 1, !.deadline = deadline]]
        /\ cache' = IF linked # None THEN [cache EXCEPT ![PrincipalKey[linked]] = None] ELSE cache
        /\ resolved' = [resolved EXCEPT ![client] = None]
        /\ UNCHANGED <<resolver, roles, refreshed, now, accounts, players, provider,
                       autoCreate, calls, mergeVars, mcVars, apiVars>>

\* The catch of getPrincipal: the fallback Principal, or UNAUTHORIZED.
ApiSvcFailed(p, c) ==
    /\ pcalls' = [pcalls EXCEPT ![p] =
            IF FallbackAllowed(api)
            THEN Returned(c, Some([id |-> c.linkedId, rank |-> None, roleId |-> None,
                                   permissions |-> {}]))
            ELSE Thrown(c, "UNAUTHORIZED")]
    /\ UNCHANGED <<cache, resolved, refreshed>>

\* http.get answers or rejects.
ApiSvcPrincipalResponded(p, r) ==
    LET c == [pcalls[p] EXCEPT
                !.got = PrincipalGot(r)]
        principal == [id |-> c.linkedId, rank |-> r.rank, roleId |-> None,
                      permissions |-> IF r.permissions = None THEN {}
                                      ELSE ValueOf(r.permissions)]
    IN  /\ resolver = "apiSvc"
        /\ c.pc = "fetch"
        /\ IF r.throws \/ ~r.ok
           THEN ApiSvcFailed(p, c)
           ELSE /\ cache' = [cache EXCEPT ![PrincipalKey[c.linkedId]] =
                        Some([principal |-> principal, expiresAt |-> now + cacheTtl])]
                /\ resolved' = [resolved EXCEPT ![ValueOf(c.client)] =
                        Some([principal |-> principal, at |-> now])]
                /\ refreshed' = IF c.op = "refreshPrincipal"
                                THEN [refreshed EXCEPT ![ValueOf(c.client)] = TRUE]
                                ELSE refreshed
                /\ pcalls' = [pcalls EXCEPT ![p] =
                        Returned([c EXCEPT !.wroteCache = TRUE], Some(principal))]
        /\ UNCHANGED <<resolver, roles, now, authVars, mergeVars, mcVars, apiVars>>

\* The timeout of http.get passes: the request rejects.
ApiSvcPrincipalAborted(p) ==
    LET c == [pcalls[p] EXCEPT !.got = "timeout"] IN
    /\ resolver = "apiSvc"
    /\ c.pc = "fetch"
    /\ c.deadline # None
    /\ now >= ValueOf(c.deadline)
    /\ ApiSvcFailed(p, c)
    /\ UNCHANGED <<resolver, roles, now, authVars, mergeVars, mcVars, apiVars>>

ApiPrincipalNext ==
    \/ \E p \in Procs, k \in Clients : ApiGetPrincipal(p, k)
    \/ \E p \in Procs, k \in Clients : ApiRefreshPrincipal(p, k)
    \/ \E p \in Procs, r \in PrincipalResponses : ApiPrincipalResponded(p, r)
    \/ \E p \in Procs : ApiPrincipalAborted(p)
    \/ \E p \in Procs, k \in Clients : ApiSvcGetPrincipal(p, k)
    \/ \E p \in Procs, k \in Clients : ApiSvcRefreshPrincipal(p, k)
    \/ \E p \in Procs, r \in PrincipalResponses : ApiSvcPrincipalResponded(p, r)
    \/ \E p \in Procs : ApiSvcPrincipalAborted(p)

ApiNext == ApiAuthNext \/ ApiPrincipalNext \/ AuthTick

SpecApi == ApiInit /\ [][ApiNext]_vars

\* The clock advances and a timer that has run out fires; the remote
\* service is under no obligation to answer.
SpecApiLive ==
    /\ SpecApi
    /\ WF_vars(AuthTick)
    /\ \A p \in Procs :
        /\ WF_vars(ApiAuthAborted(p))
        /\ WF_vars(ApiPrincipalAborted(p))
        /\ WF_vars(ApiSvcPrincipalAborted(p))

\* The API strategy by itself, with the clock.
ApiStrategyNext == ApiAuthNext \/ AuthTick

SpecApiAuth == ApiInit /\ [][ApiStrategyNext]_vars

(***************************************************************************)
(* C18 (API auth failure).  An authenticate, register or validateSession   *)
(* call of the API strategy sends at most one HTTP request; when that      *)
(* request throws, times out, comes back outside 2xx, or carries           *)
(* success = false or no account id, the call returns success = false with *)
(* an error string and does not link the connection.                       *)
(***************************************************************************)
C18_OneRequestFailureNotLinked ==
    provider \in ApiProviders =>
        \A p \in Procs :
            calls[p].op \in {"authenticate", "register", "validateSession"} =>
                /\ calls[p].requests <= 1
                /\ (calls[p].pc = "done" /\ calls[p].got \in {"failed", "timeout"}) =>
                        /\ ~ValueOf(calls[p].result).success
                        /\ ValueOf(calls[p].result).error # ""
                        /\ ~calls[p].linked

\* A call whose request was answered with a failure has returned while the
\* connection is not linked.
C18_Witness ==
    \E p \in Procs :
        /\ provider \in ApiProviders
        /\ calls[p].op = "authenticate"
        /\ calls[p].pc = "done"
        /\ calls[p].got = "failed"
        /\ calls[p].requests = 1
        /\ players[ValueOf(calls[p].client)] = None

(***************************************************************************)
(* C19 (bounded outbound calls).  Every HTTP request of the API strategy   *)
(* and of the API resolver is under a timeout, 5000 ms when none is        *)
(* configured: even if the remote service never answers, the call returns, *)
(* and it sends no second request.                                         *)
(***************************************************************************)
C19_RequestsAreBounded ==
    /\ \A p \in Procs : (calls[p].pc = "fetch") ~> (calls[p].pc = "done")
    /\ \A p \in Procs : (pcalls[p].pc = "fetch") ~> (pcalls[p].pc = "done")
    /\ [](\A p \in Procs : calls[p].requests <= 1 /\ pcalls[p].reads <= 1)

(***************************************************************************)
(* C20 (fallback policy).  When the external principal call fails, the     *)
(* API resolver returns a Principal exactly when the allow-fallback option *)
(* is on, and that Principal has no permissions; with the option off the   *)
(* call yields null or an error.                                           *)
(***************************************************************************)
C20_FallbackIffConfigured ==
    \A p \in Procs :
        (resolver \in ApiProviders /\ pcalls[p].pc = "done"
            /\ pcalls[p].got \in {"failed", "timeout"})
        => /\ (pcalls[p].outcome = "principal") <=> api.allowFallback
           /\ pcalls[p].outcome = "principal" =>
                ValueOf(pcalls[p].principal).permissions = {}

(***************************************************************************)
(* C21 (invalid principal data).  For a 2xx answer whose principal data    *)
(* has no id or no permissions array, flattened or nested, the API         *)
(* resolver returns null and writes nothing to its cache.                  *)
(***************************************************************************)
C21_InvalidDataYieldsNull ==
    \A p \in Procs :
        (resolver \in ApiProviders /\ pcalls[p].pc = "done"
            /\ pcalls[p].got = "invalid")
        => (pcalls[p].outcome = "null" /\ ~pcalls[p].wroteCache)

(***************************************************************************)
(* C22 (no link, no principal).  A getPrincipal call for a connection with *)
(* no cache entry and no linked account fails with UNAUTHORIZED, having    *)
(* read nothing from the store or the API and written nothing to the       *)
(* cache.                                                                  *)
(***************************************************************************)
C22_UnlinkedIsUnauthorized ==
    [][\A p \in Procs, k \in Clients :
        (/\ pcalls[p].pc \in {"idle", "done"}
         /\ pcalls'[p] # pcalls[p]
         /\ pcalls'[p].op = "getPrincipal"
         /\ pcalls'[p].client = Some(k)
         /\ cache[k] = None
         /\ players[k] = None)
        => /\ pcalls'[p].pc = "done"
           /\ pcalls'[p].outcome = "UNAUTHORIZED"
           /\ pcalls'[p].reads = 0
           /\ cache' = cache]_vars

(***************************************************************************)
(* C23 (offline resolution).  getPrincipalByLinkedID never throws; it      *)
(* returns null when no account has the linked id or no role is resolved   *)
(* for the account, and a Principal only when both account and role were   *)
(* resolved.                                                               *)
(***************************************************************************)
C23_ByLinkedIdNullUnlessResolved ==
    \A p \in Procs :
        (pcalls[p].op = "getPrincipalByLinkedID" /\ pcalls[p].pc = "done") =>
            /\ pcalls[p].outcome \in {"null", "principal"}
            /\ findByLinkedId(accounts, pcalls[p].linkedId) = None
                    => pcalls[p].outcome = "null"
            /\ pcalls[p].outcome = "principal" =>
                    /\ ValueOf(pcalls[p].principal).roleId # None
                    /\ FindRole(ValueOf(ValueOf(pcalls[p].principal).roleId)) # None

(***************************************************************************)
(* C24 (role resolution).  IdentityPrincipalProvider takes the role named  *)
(* by the account's roleId when that role exists, otherwise the default    *)
(* role; the Principal carries the rank of the role so chosen and its      *)
(* permissions merged with the account's custom permissions.  With no      *)
(* role to choose the result is null.                                      *)
(***************************************************************************)
ChosenRole(account) ==
    IF account.roleId # None /\ FindRole(ValueOf(account.roleId)) # None
    THEN FindRole(ValueOf(account.roleId))
    ELSE FindRole(defaultRole)

MaxRoles == 3

\* Everything but the roles table and the calls on it.
roleFrame == <<provider, autoCreate, accounts, players, resolver, cache, pcalls,
               resolved, refreshed, now, mergeVars, mcVars, apiVars>>

\* A slot of RoleService.update or RoleRepository.setDefault: its position,
\* its arguments and the row that update read.
IdleRoleCall == [pc |-> "idle", op |-> "none", id |-> 0, isDefault |-> None,
                 existing |-> None]

RoleFree(p) ==
    /\ calls[p].pc \in {"idle", "done"}
    /\ \A q \in Procs : q < p => calls[q].pc \notin {"idle", "done"}
    /\ nCalls < MaxCalls

\* The roles as the migration seeds them: 'user' is the default.
RolesInit ==
    /\ roles = <<[id |-> 1, name |-> "user", isDefault |-> TRUE],
                 [id |-> 2, name |-> "admin", isDefault |-> FALSE]>>
    /\ calls = [p \in Procs |-> IdleRoleCall]
    /\ nCalls = 0
    /\ provider = "off"
    /\ autoCreate = TRUE
    /\ accounts = <<>>
    /\ players = None
    /\ resolver = "off"
    /\ cache = None
    /\ pcalls = None
    /\ resolved = None
    /\ refreshed = None
    /\ now = 0
    /\ MergeIdle
    /\ McIdle
    /\ ApiIdle

\* RoleService.create(input): the row is saved as given.
RoleServiceCreate(isDefault) ==
    /\ Len(roles) < MaxRoles
    /\ roles' = Append(roles, [id |-> Len(roles) + 1, name |-> "new",
                               isDefault |-> isDefault])
    /\ UNCHANGED <<calls, nCalls, roleFrame>>

\* RoleService.update(id, input), up to repo.findById.
RoleServiceUpdate(p, id, isDefault) ==
    /\ RoleFree(p)
    /\ nCalls' = nCalls + 1
    /\ calls' = [calls EXCEPT ![p] =
            [IdleRoleCall EXCEPT !.pc = "findById", !.op = "update", !.id = id,
                                 !.isDefault = isDefault]]
    /\ UNCHANGED <<roles, roleFrame>>

\* repo.findById answers update.
RoleServiceFound(p) ==
    LET c == calls[p] IN
    /\ c.pc = "findById"
    /\ calls' = [calls EXCEPT ![p] =
            IF c.id \notin 1..Len(roles) THEN [c EXCEPT !.pc = "done"]
            ELSE [c EXCEPT !.existing = Some(roles[c.id]),
                           !.pc = IF c.isDefault = None THEN "save"
                                  ELSE IF ValueOf(c.isDefault) THEN "unsetOthers"
                                  ELSE "setOwn"]]
    /\ UNCHANGED <<roles, nCalls, roleFrame>>

\* RoleRepository.setDefault(roleId, isDefault), called by itself.
SetDefault(p, id, isDefault) ==
    /\ RoleFree(p)
    /\ nCalls' = nCalls + 1
    /\ calls' = [calls EXCEPT ![p] =
            [IdleRoleCall EXCEPT !.pc = IF isDefault THEN "unsetOthers" ELSE "setOwn",
                                 !.op = "setDefault", !.id = id,
                                 !.isDefault = Some(isDefault)]]
    /\ UNCHANGED <<roles, roleFrame>>

\* UPDATE roles SET is_default = FALSE WHERE id != ?
SetDefaultUnsetOthers(p) ==
    LET c == calls[p] IN
    /\ c.pc = "unsetOthers"
    /\ roles' = [i \in 1..Len(roles) |->
                    IF roles[i].id # c.id THEN [roles[i] EXCEPT !.isDefault = FALSE]
                    ELSE roles[i]]
    /\ calls' = [calls EXCEPT ![p] = [c EXCEPT !.pc = "setOwn"]]
    /\ UNCHANGED <<nCalls, roleFrame>>

\* UPDATE roles SET is_default = ? WHERE id = ?
SetDefaultSetOwn(p) ==
    LET c == calls[p] IN
    /\ c.pc = "setOwn"
    /\ roles' = [i \in 1..Len(roles) |->
                    IF roles[i].id = c.id
                    THEN [roles[i] EXCEPT !.isDefault = ValueOf(c.isDefault)]
                    ELSE roles[i]]
    /\ calls' = [calls EXCEPT ![p] =
            [c EXCEPT !.pc = IF c.op = "update" THEN "save" ELSE "done"]]
    /\ UNCHANGED <<nCalls, roleFrame>>

\* repo.save(updated): the row that update read, with the fields it was given.
RoleServiceSaved(p) ==
    LET c == calls[p]
        updated == [ValueOf(c.existing) EXCEPT
                        !.isDefault = IF c.isDefault = None THEN @
                                      ELSE ValueOf(c.isDefault)]
    IN  /\ c.pc = "save"
        /\ roles' = [i \in 1..Len(roles) |->
                        IF roles[i].id = c.id THEN updated ELSE roles[i]]
        /\ calls' = [calls EXCEPT ![p] = [c EXCEPT !.pc = "done", !.existing = None]]
        /\ UNCHANGED <<nCalls, roleFrame>>

RolesNext ==
    \/ \E d \in BOOLEAN : RoleServiceCreate(d)
    \/ \E p \in Procs, id \in 1..MaxRoles, d \in {None, Some(TRUE), Some(FALSE)} :
            RoleServiceUpdate(p, id, d)
    \/ \E p \in Procs : RoleServiceFound(p)
    \/ \E p \in Procs, id \in 1..MaxRoles, d \in BOOLEAN : SetDefault(p, id, d)
    \/ \E p \in Procs : SetDefaultUnsetOthers(p)
    \/ \E p \in Procs : SetDefaultSetOwn(p)
    \/ \E p \in Procs : RoleServiceSaved(p)

SpecRoles == RolesInit /\ [][RolesNext]_vars

(***************************************************************************)
(* C25 (one default role).  Whenever no RoleService or RoleRepository call *)
(* is in flight, at most one role of the table has isDefault = true.       *)
(***************************************************************************)
C25_AtMostOneDefault ==
    (\A p \in Procs : calls[p].pc \in {"idle", "done"}) =>
        \A i, j \in 1..Len(roles) :
            (roles[i].isDefault /\ roles[j].isDefault) => i = j

(***************************************************************************)
(* Failing account-store calls.  Any store call that a handler awaits may  *)
(* reject; what the handler does with the rejection depends on whether it  *)
(* has a catch.                                                            *)
(***************************************************************************)
\* The positions at which authenticate and register await the account
\* store or the role store.
StorePcs == {"findByIdentifier", "create", "setBan", "findByUsername",
             "getDefaultRole", "lookup", "lookupFallback", "createAccount",
             "unban", "touchLastLogin"}

\* The rejection leaves the handler: the promise it returned rejects.
Rejected(c) ==
    [c EXCEPT !.pc = "done", !.result = None, !.credentials = NoCredentials,
              !.accountId = None, !.account = None, !.isNew = FALSE]

\* The awaited store call rejects.  LocalAuthProvider.authenticate catches
\* and returns the error; the other strategies have no catch.
StoreFailed(p) ==
    LET c == [calls[p] EXCEPT !.got = "storeFailed"] IN
    /\ provider \in Providers
    /\ c.op \in {"authenticate", "register"}
    /\ c.pc \in StorePcs
    /\ calls' = [calls EXCEPT ![p] =
            IF provider = "local" THEN Return(c, Failure("store error", None))
            ELSE Rejected(c)]
    /\ UNCHANGED <<provider, autoCreate, accounts, players, nCalls, now, nonAuthVars>>

FaultNext == AuthNext \/ \E p \in Procs : StoreFailed(p)

SpecAuthFaults == AuthInit /\ [][FaultNext]_vars

(***************************************************************************)
(* C26 (store failure).  An authenticate or register call whose store call *)
(* failed returns a result with success = false and an error, rather than  *)
(* throwing, and has not linked the connection.                            *)
(***************************************************************************)
C26_StoreFailureIsExplicit ==
    \A p \in Procs :
        (calls[p].op \in {"authenticate", "register"} /\ calls[p].pc = "done"
            /\ calls[p].got = "storeFailed")
        => /\ calls[p].result # None
           /\ ~ValueOf(calls[p].result).success
           /\ ValueOf(calls[p].result).error # ""
           /\ ~calls[p].linked

(***************************************************************************)
(* C27 (logout).  When a logout call completes, whatever the strategy, the *)
(* connection has no linked account.                                       *)
(***************************************************************************)
C27_LogoutClearsLink ==
    [][\A p \in Procs :
        (calls'[p] # calls[p] /\ calls'[p].op = "logout" /\ calls'[p].pc = "done")
        => players'[ValueOf(calls'[p].client)] = None]_vars

(***************************************************************************)
(* AccountService.hasPermission(linkedID, permission, roleStore): the      *)
(* account is read, then its role; the custom overrides are walked in list *)
(* order and the first entry that names the permission decides.            *)
(***************************************************************************)
Star == <<"*">>

HpEntries == OverrideEntries \cup {Star}
HpRolePermissions == SUBSET (PermNames \cup {Star})

hpFrame == <<provider, autoCreate, players, resolver, cache, pcalls, resolved,
             refreshed, now, mergeVars, mcVars, apiVars>>

\* A slot of hasPermission: its position, its arguments, the account row it
\* read, and the boolean it returned.
IdleHpCall == [pc |-> "idle", op |-> "none", linkedId |-> None,
               permission |-> None, account |-> None, result |-> None]

HpFree(p) ==
    /\ calls[p].pc \in {"idle", "done"}
    /\ \A q \in Procs : q < p => calls[q].pc \notin {"idle", "done"}
    /\ nCalls < MaxCalls

HpInit ==
    /\ accounts \in {<<[LinkedAccount EXCEPT !.roleId = r,
                                            !.customPermissions = custom]>> :
                        r \in {None, Some("admin"), Some("gone")},
                        custom \in SeqsUpTo(HpEntries, MaxOverrides)}
    /\ roles \in {[r \in {"admin"} |-> [id |-> "admin", rank |-> 2, permissions |-> ps]] :
                        ps \in HpRolePermissions}
    /\ calls = [p \in Procs |-> IdleHpCall]
    /\ nCalls = 0
    /\ provider = "off"
    /\ autoCreate = TRUE
    /\ players = None
    /\ resolver = "off"
    /\ cache = None
    /\ pcalls = None
    /\ resolved = None
    /\ refreshed = None
    /\ now = 0
    /\ MergeIdle
    /\ McIdle
    /\ ApiIdle

HpReturn(c, result) ==
    [c EXCEPT !.pc = "done", !.account = None, !.result = Some(result)]

\* The for loop over account.customPermissions: the first entry equal to
\* '+permission' or 'permission' returns true, the first equal to
\* '-permission' returns false; None when the loop runs out.
RECURSIVE HpOverrideLoop(_, _)
HpOverrideLoop(customPermissions, permission) ==
    IF customPermissions = <<>> THEN None
    ELSE LET override == Head(customPermissions) IN
         IF override = Grant(permission) \/ override = permission THEN Some(TRUE)
         ELSE IF override = Revoke(permission) THEN Some(FALSE)
         ELSE HpOverrideLoop(Tail(customPermissions), permission)

\* hasPermission is called.
HasPermission(p, linkedID, permission) ==
    /\ HpFree(p)
    /\ calls' = [calls EXCEPT ![p] =
            [IdleHpCall EXCEPT !.pc = "findByLinkedId", !.op = "hasPermission",
                               !.linkedId = Some(linkedID),
                               !.permission = Some(permission)]]
    /\ nCalls' = nCalls + 1
    /\ UNCHANGED <<accounts, roles, hpFrame>>

\* store.findByLinkedId answers: no account, or an account without a role.
HpAccountRead(p) ==
    LET c == calls[p]
        account == findByLinkedId(accounts, ValueOf(c.linkedId))
        permission == ValueOf(c.permission)
    IN
    /\ c.op = "hasPermission" /\ c.pc = "findByLinkedId"
    /\ calls' = [calls EXCEPT ![p] =
            IF account = None THEN HpReturn(c, FALSE)
            ELSE IF ValueOf(account).roleId = None
              THEN HpReturn(c, permission \in Entries(ValueOf(account).customPermissions))
            ELSE [c EXCEPT !.pc = "findRole", !.account = account]]
    /\ UNCHANGED <<accounts, roles, nCalls, hpFrame>>

\* roleStore.findById answers; the overrides are walked.
HpRoleRead(p) ==
    LET c == calls[p]
        account == ValueOf(c.account)
        permission == ValueOf(c.permission)
        role == FindRole(ValueOf(account.roleId))
        basePermissions == IF role = None THEN {} ELSE ValueOf(role).permissions
        decided == HpOverrideLoop(account.customPermissions, permission)
    IN
    /\ c.op = "hasPermission" /\ c.pc = "findRole"
    /\ calls' = [calls EXCEPT ![p] =
            IF decided # None THEN HpReturn(c, ValueOf(decided))
            ELSE HpReturn(c, permission \in basePermissions \/ Star \in basePermissions)]
    /\ UNCHANGED <<accounts, roles, nCalls, hpFrame>>

HpNext ==
    \/ \E p \in Procs, l \in LinkedIds, n \in PermNames : HasPermission(p, l, n)
    \/ \E p \in Procs : HpAccountRead(p)
    \/ \E p \in Procs : HpRoleRead(p)

SpecHasPermission == HpInit /\ [][HpNext]_vars

(***************************************************************************)
(* C28 (permission check).  For an account that exists, hasPermission      *)
(* returns false whenever customPermissions holds '-p', whatever the order *)
(* and the role; otherwise true when customPermissions holds '+p', 'p' or  *)
(* '*'; otherwise true exactly when the role's permissions hold p or '*'.  *)
(***************************************************************************)
C28_HasPermissionPriority ==
    \A p \in Procs :
        LET c == calls[p]
            account == accounts[1]
            custom == Entries(account.customPermissions)
            n == ValueOf(c.permission)
            role == IF account.roleId = None THEN None
                    ELSE FindRole(ValueOf(account.roleId))
            rolePermissions == IF role = None THEN {} ELSE ValueOf(role).permissions
        IN
        (c.op = "hasPermission" /\ c.pc = "done"
            /\ c.linkedId = Some(account.linkedId))
        => ValueOf(c.result) =
              IF Revoke(n) \in custom THEN FALSE
              ELSE IF Grant(n) \in custom \/ n \in custom \/ Star \in custom THEN TRUE
              ELSE n \in rolePermissions \/ Star \in rolePermissions

(***************************************************************************)
(* Merging twice: the effective set of a first merge is handed back as the *)
(* base of a second merge of the same custom list.                         *)
(***************************************************************************)
DoMergeAgain ==
    /\ m_pc = "merged"
    /\ m_effective' = mergePermissions(m_effective, m_overrides)
    /\ m_pc' = "mergedTwice"
    /\ UNCHANGED <<m_base, m_overrides, now, mcVars, authVars, principalVars, apiVars>>

DoCombineAgain ==
    /\ m_pc = "combined"
    /\ m_effective' = combinePermissions(m_effective, m_overrides)
    /\ m_pc' = "combinedTwice"
    /\ UNCHANGED <<m_base, m_overrides, now, mcVars, authVars, principalVars, apiVars>>

MergeTwiceNext == MergeNext \/ DoMergeAgain \/ DoCombineAgain

SpecMergeTwice == MergeInit /\ [][MergeTwiceNext]_vars

(***************************************************************************)
(* C29 (merge idempotence).  Merging a custom list into the effective set  *)
(* that merging the same list into the role produced leaves that set as it *)
(* is, for mergePermissions and for combinePermissions.                    *)
(***************************************************************************)
C29_MergeIdempotent ==
    [][(m_pc \in {"merged", "combined"} /\ m_pc' \in {"mergedTwice", "combinedTwice"})
        => m_effective' = m_effective]_vars

\* A second merge has run on a list that both grants and revokes, and the
\* first merge had changed the role's set.
C29_Witness ==
    /\ m_pc = "mergedTwice"
    /\ m_effective # m_base
    /\ \E n \in PermNames : Revoke(n) \in Entries(m_overrides)
    /\ \E n \in PermNames : n \in Entries(m_overrides) \/ Grant(n) \in Entries(m_overrides)

(***************************************************************************)
(* C30 (addition law).  When no permission is both granted and negated in  *)
(* the custom list, the effective set is the role's permissions and the    *)
(* granted permissions, less the negated ones; a negation of a permission  *)
(* that nothing granted changes nothing.                                   *)
(***************************************************************************)
GrantedNames(list) == {n \in PermNames : IsGranted(n, list)}
NegatedNames(list) == {n \in PermNames : IsNegated(n, list)}

C30_AdditionLaw ==
    (m_pc \in {"merged", "combined"}
        /\ GrantedNames(m_overrides) \cap NegatedNames(m_overrides) = {})
    => m_effective =
          (m_base \cup GrantedNames(m_overrides)) \ NegatedNames(m_overrides)

(***************************************************************************)
(* C31 ('+' grants).  In every permission merge, a custom entry '+p' adds  *)
(* the bare permission p: no effective permission is a '+'-prefixed        *)
(* string.                                                                 *)
(***************************************************************************)
C31_PlusAddsBareName ==
    m_pc \in {"merged", "combined"} =>
        /\ \A e \in m_effective : ~StartsWith(e, "+")
        /\ \A n \in PermNames :
              (Grant(n) \in Entries(m_overrides) /\ ~IsNegated(n, m_overrides))
                  => n \in m_effective

(***************************************************************************)
(* The sweep as an optimisation.  Two MemoryCacheService instances receive *)
(* the same get/set/delete calls at the same times; the interval timer of  *)
(* the first (swept) runs cleanExpired, that of the second (plain) never   *)
(* fires.  mc_last holds what the last call returned from each.            *)
(***************************************************************************)
\* get(key) on a Map m at time t: the Map afterwards and the value returned.
GetOf(m, key, t) ==
    LET entry == m[key] IN
    IF entry = None THEN [cache |-> m, result |-> None]
    ELSE IF McIsExpired(ValueOf(entry), t)
      THEN [cache |-> [m EXCEPT ![key] = None], result |-> None]
    ELSE [cache |-> m, result |-> Some(ValueOf(entry).value)]

\* set(key, value, ttlMs): returns nothing.
SetOf(m, key, value, ttlMs, t) ==
    LET expiresAt == t + (IF ttlMs = None THEN defaultTtlMs ELSE ValueOf(ttlMs)) IN
    [cache |-> [m EXCEPT ![key] = Some([value |-> value, expiresAt |-> expiresAt])],
     result |-> None]

\* delete(key): Map.prototype.delete reports whether the key was in the Map.
DeleteOf(m, key) ==
    [cache |-> [m EXCEPT ![key] = None],
     result |-> Some(IF m[key] # None THEN "true" ELSE "false")]

\* cleanExpired() at time t.
CleanExpiredOf(m, t) ==
    [k \in McKeys |->
        IF m[k] # None /\ McIsExpired(ValueOf(m[k]), t) THEN None ELSE m[k]]

SweepInit ==
    /\ now = 0
    /\ mc_cache = [swept |-> [k \in McKeys |-> None], plain |-> [k \in McKeys |-> None]]
    /\ mc_last = [op |-> "new", swept |-> None, plain |-> None]
    /\ MergeIdle
    /\ AuthIdle
    /\ PrincipalIdle
    /\ ApiIdle

\* One call, made on both instances.
SweepCalled(op, s, q) ==
    /\ mc_cache' = [swept |-> s.cache, plain |-> q.cache]
    /\ mc_last' = [op |-> op, swept |-> s.result, plain |-> q.result]
    /\ UNCHANGED <<now, mergeVars, authVars, principalVars, apiVars>>

SweepGet(key) ==
    SweepCalled("get", GetOf(mc_cache.swept, key, now), GetOf(mc_cache.plain, key, now))

SweepSet(key, value, ttlMs) ==
    SweepCalled("set", SetOf(mc_cache.swept, key, value, ttlMs, now),
                       SetOf(mc_cache.plain, key, value, ttlMs, now))

SweepDelete(key) ==
    SweepCalled("delete", DeleteOf(mc_cache.swept, key), DeleteOf(mc_cache.plain, key))

\* The interval timer of the swept instance fires.
SweepCleanExpired ==
    /\ mc_cache' = [mc_cache EXCEPT !.swept = CleanExpiredOf(mc_cache.swept, now)]
    /\ mc_last' = [op |-> "sweep", swept |-> None, plain |-> None]
    /\ UNCHANGED <<now, mergeVars, authVars, principalVars, apiVars>>

SweepTick ==
    /\ Tick
    /\ mc_last' = [op |-> "tick", swept |-> None, plain |-> None]
    /\ UNCHANGED <<mc_cache, mergeVars, authVars, principalVars, apiVars>>

SweepNext ==
    \/ \E k \in McKeys : SweepGet(k)
    \/ \E k \in McKeys, v \in McValues, t \in McTtls : SweepSet(k, v, t)
    \/ \E k \in McKeys : SweepDelete(k)
    \/ SweepCleanExpired
    \/ SweepTick

SpecSweep == SweepInit /\ [][SweepNext]_vars

(***************************************************************************)
(* C32 (sweep is unobservable).  Every get, set and delete returns the     *)
(* same result on the instance whose sweeps ran as on the instance that    *)
(* was never swept.                                                        *)
(***************************************************************************)
C32_SweepUnobservable ==
    mc_last.op \in {"get", "set", "delete"} => mc_last.swept = mc_last.plain

(***************************************************************************)
(* Sessions on one connection.  The strategies link and unlink the account *)
(* of a connection (player.linkAccount, player.unlinkAccount) while the    *)
(* resolver keeps its cache under the client id.                           *)
(***************************************************************************)
SecondAccount ==
    [LinkedAccount EXCEPT !.id = 2, !.linkedId = <<"uuid", 2>>,
                          !.identifier = Some("lic2"), !.roleId = Some("admin")]

RelinkInit ==
    /\ resolver \in {"roles", "db"}
    /\ roles = InitialRoles
    /\ accounts = <<LinkedAccount, SecondAccount>>
    /\ players \in {[c \in Clients |-> None], [c \in Clients |-> LinkedAccount.linkedId]}
    /\ cache = [c \in Clients |-> None]
    /\ pcalls = [p \in Procs |-> IdleResolve]
    /\ resolved = [c \in Clients |-> None]
    /\ refreshed = [c \in Clients |-> FALSE]
    /\ nCalls = 0
    /\ now = 0
    /\ provider = "off"
    /\ autoCreate = TRUE
    /\ calls = None
    /\ MergeIdle
    /\ McIdle
    /\ ApiIdle

\* logout: player.unlinkAccount().
UnlinkAccount(client) ==
    /\ players[client] # None
    /\ players' = [players EXCEPT ![client] = None]
    /\ UNCHANGED <<provider, autoCreate, accounts, calls, nCalls, now,
                   principalVars, mergeVars, mcVars, apiVars>>

\* A successful authenticate or register: player.linkAccount(linkedId).
LinkAccount(client, linkedID) ==
    /\ players[client] # linkedID
    /\ players' = linkAccount(client, linkedID)
    /\ UNCHANGED <<provider, autoCreate, accounts, calls, nCalls, now,
                   principalVars, mergeVars, mcVars, apiVars>>

RelinkNext ==
    \/ \E p \in Procs, k \in Clients : IppGetPrincipal(p, k)
    \/ \E p \in Procs : IppAccountRead(p)
    \/ \E p \in Procs : IppRoleRead(p)
    \/ \E p \in Procs : IppDefaultRoleRead(p)
    \/ \E k \in Clients : UnlinkAccount(k)
    \/ \E k \in Clients, l \in LinkedIds : LinkAccount(k, l)
    \/ AuthTick

SpecRelink == RelinkInit /\ [][RelinkNext]_vars

(***************************************************************************)
(* C33 (no stale principal).  When getPrincipal returns a Principal, the   *)
(* connection is linked and the Principal is that of the linked account:   *)
(* not of an account the connection was linked to before a logout or a     *)
(* new login.                                                              *)
(***************************************************************************)
C33_PrincipalOfLinkedAccount ==
    [][\A p \in Procs :
        (pcalls'[p] # pcalls[p] /\ pcalls'[p].op = "getPrincipal"
            /\ pcalls'[p].pc = "done" /\ pcalls'[p].outcome = "principal")
        => /\ players'[ValueOf(pcalls'[p].client)] # None
           /\ ValueOf(pcalls'[p].principal).id = players'[ValueOf(pcalls'[p].client)]]_vars

(***************************************************************************)
(* A session on the current providers: LocalAuthProvider authenticates the *)
(* connection, IdentityPrincipalProvider then resolves its Principal.  The *)
(* store is empty or holds an account that carries a linkedId.  No account *)
(* that the strategy links has a role, so the role read by id never runs.  *)
(***************************************************************************)
SessionInit ==
    /\ provider = "local"
    /\ autoCreate = TRUE
    /\ accounts \in {<<>>, <<LinkedAccount>>}
    /\ players = [c \in Clients |-> None]
    /\ calls = [p \in Procs |-> IdleCall]
    /\ nCalls = 0
    /\ now = 0
    /\ resolver \in {"roles", "db"}
    /\ roles = InitialRoles
    /\ cache = [c \in Clients |-> None]
    /\ pcalls = [p \in Procs |-> IdleResolve]
    /\ resolved = [c \in Clients |-> None]
    /\ refreshed = [c \in Clients |-> FALSE]
    /\ MergeIdle
    /\ McIdle
    /\ ApiIdle

SessionNext ==
    \/ \E p \in Procs, k \in Clients : LocalAuthenticate(p, k)
    \/ \E p \in Procs : LocalFound(p)
    \/ \E p \in Procs : LocalCreated(p)
    \/ \E p \in Procs, k \in Clients : IppGetPrincipal(p, k)
    \/ \E p \in Procs : IppAccountRead(p)
    \/ \E p \in Procs : IppDefaultRoleRead(p)

SpecSession == SessionInit /\ [][SessionNext]_vars

(***************************************************************************)
(* C34 (bound identifier).  A getPrincipal made on a connection that a     *)
(* successful authenticate has linked returns a Principal, and the bound   *)
(* value and the Principal's id are the linkedId of an account in the      *)
(* store.                                                                  *)
(***************************************************************************)
C34_BoundValueIsLinkedId ==
    [][\A p \in Procs :
        LET c == pcalls'[p]
            bound == players[ValueOf(c.client)]
        IN
        (c # pcalls[p] /\ c.op = "getPrincipal" /\ c.pc = "done" /\ bound # None)
        => /\ c.outcome = "principal"
           /\ \E i \in 1..Len(accounts) :
                 /\ accounts[i].linkedId # None
                 /\ accounts[i].linkedId = bound
                 /\ ValueOf(c.principal).id = accounts[i].linkedId]_vars

(***************************************************************************)
(* C35 (refresh is not overwritten).  Once every call has returned, a      *)
(* connection whose refreshPrincipal completed after the last store change *)
(* has no cached Principal other than the one the store resolves to now:   *)
(* an older resolution that was in flight across the change has not put    *)
(* its result over the refreshed entry.                                    *)
(***************************************************************************)
C35_RefreshNotOverwritten ==
    \A k \in Clients :
        (/\ resolver \in {"roles", "db"}
         /\ refreshed[k]
         /\ players[k] # None
         /\ cache[k] # None
         /\ \A p \in Procs : pcalls[p].pc \in {"idle", "done"})
        => Some(ValueOf(cache[k]).principal) = ResolveNow(players[k])

(***************************************************************************)
(* C36 (unban write-back).  The setBan(id, false) that a strategy issues   *)
(* for a ban it read as run out never lifts a ban that is in force at the  *)
(* time of the write: an account banned again in between stays banned.     *)
(***************************************************************************)
C36_WriteBackKeepsActiveBan ==
    [][\A i \in 1..Len(accounts) :
        (/\ IsCurrentlyBanned(accounts[i], now)
         /\ \E p \in Procs : calls'[p].unbanIssued /\ ~calls[p].unbanIssued)
        => accounts'[i].isBanned]_vars

(***************************************************************************)
(* C37 (register race).  Whatever the interleaving of the Credentials      *)
(* register calls for one username, the store holds at most one account    *)
(* with that username and at most one of the calls has reported success.   *)
(***************************************************************************)
C37_OneAccountPerUsername ==
    provider = "credentials" =>
        /\ \A i, j \in 1..Len(accounts) :
              (i # j /\ accounts[i].username # None)
                  => accounts[i].username # accounts[j].username
        /\ \A p, q \in Procs :
              (/\ p # q
               /\ calls[p].op = "register" /\ calls[q].op = "register"
               /\ calls[p].pc = "done" /\ calls[q].pc = "done"
               /\ calls[p].result # None /\ calls[q].result # None
               /\ ValueOf(calls[p].result).success /\ ValueOf(calls[q].result).success)
              => ValueOf(calls[p].result).accountID = ValueOf(calls[q].result).accountID

(***************************************************************************)
(* AccountService.addCustomPermission / removeCustomPermission: the        *)
(* account is read, the list is rebuilt from what was read, and the whole  *)
(* list is written back by store.update.                                   *)
(***************************************************************************)
\* Array.from(new Set(list)): the first occurrence of every entry, in order.
RECURSIVE ArrayFromSet(_)
ArrayFromSet(list) ==
    IF list = <<>> THEN <<>>
    ELSE LET init == ArrayFromSet(SubSeq(list, 1, Len(list) - 1))
             last == list[Len(list)]
         IN  IF last \in Entries(init) THEN init ELSE Append(init, last)

\* permissions.add(permission) / permissions.delete(permission) on that Set.
SetAdd(list, permission) == ArrayFromSet(Append(list, permission))
SetDelete(list, permission) ==
    SelectSeq(ArrayFromSet(list), LAMBDA e : e # permission)

IdleCustomCall == [pc |-> "idle", op |-> "none", linkedId |-> None,
                   permission |-> None, id |-> None, customPermissions |-> None]

CustomInit ==
    /\ accounts \in {<<[LinkedAccount EXCEPT !.customPermissions = custom]>> :
                        custom \in SeqsUpTo(PermNames, MaxOverrides)}
    /\ calls = [p \in Procs |-> IdleCustomCall]
    /\ nCalls = 0
    /\ provider = "off"
    /\ autoCreate = TRUE
    /\ players = None
    /\ now = 0
    /\ MergeIdle
    /\ McIdle
    /\ PrincipalIdle
    /\ ApiIdle

customFrame == <<provider, autoCreate, players, now, mergeVars, mcVars,
                 principalVars, apiVars>>

\* addCustomPermission or removeCustomPermission is called.
CustomPermissionCall(p, op, linkedID, permission) ==
    /\ HpFree(p)
    /\ calls' = [calls EXCEPT ![p] =
            [IdleCustomCall EXCEPT !.pc = "findByLinkedId", !.op = op,
                                   !.linkedId = Some(linkedID),
                                   !.permission = Some(permission)]]
    /\ nCalls' = nCalls + 1
    /\ UNCHANGED <<accounts, customFrame>>

\* store.findByLinkedId answers; the new list is built from the row read.
CustomPermissionRead(p) ==
    LET c == calls[p]
        account == findByLinkedId(accounts, ValueOf(c.linkedId))
        current == ValueOf(account).customPermissions
        permission == ValueOf(c.permission)
    IN
    /\ c.op \in {"addCustomPermission", "removeCustomPermission"}
    /\ c.pc = "findByLinkedId"
    /\ calls' = [calls EXCEPT ![p] =
            IF account = None THEN [c EXCEPT !.pc = "done"]
            ELSE [c EXCEPT !.pc = "update", !.id = Some(ValueOf(account).id),
                    !.customPermissions =
                        Some(IF c.op = "addCustomPermission"
                             THEN SetAdd(current, permission)
                             ELSE SetDelete(current, permission))]]
    /\ UNCHANGED <<accounts, nCalls, customFrame>>

\* store.update(account.id, {customPermissions}) is applied.
CustomPermissionWritten(p) ==
    LET c == calls[p] IN
    /\ c.op \in {"addCustomPermission", "removeCustomPermission"}
    /\ c.pc = "update"
    /\ accounts' = [accounts EXCEPT
            ![ValueOf(c.id)].customPermissions = ValueOf(c.customPermissions)]
    /\ calls' = [calls EXCEPT ![p] = [c EXCEPT !.pc = "done"]]
    /\ UNCHANGED <<nCalls, customFrame>>

CustomNext ==
    \/ \E p \in Procs, op \in {"addCustomPermission", "removeCustomPermission"},
          l \in LinkedIds, n \in PermNames : CustomPermissionCall(p, op, l, n)
    \/ \E p \in Procs : CustomPermissionRead(p)
    \/ \E p \in Procs : CustomPermissionWritten(p)

SpecCustom == CustomInit /\ [][CustomNext]_vars

(***************************************************************************)
(* C38 (no lost update).  When two overlapping add / remove calls on one   *)
(* account for different permission strings have both returned, the        *)
(* account's customPermissions shows both changes.                         *)
(***************************************************************************)
CustomApplied(c) ==
    IF c.op = "addCustomPermission"
    THEN ValueOf(c.permission) \in Entries(accounts[1].customPermissions)
    ELSE ValueOf(c.permission) \notin Entries(accounts[1].customPermissions)

C38_BothChangesKept ==
    (/\ nCalls = 2
     /\ \A p \in Procs : calls[p].pc = "done" /\ calls[p].id # None
     /\ calls[1].permission # calls[2].permission)
    => CustomApplied(calls[1]) /\ CustomApplied(calls[2])

(***************************************************************************)
(* C39 (what the cache holds).  A resolver call writes the principal cache *)
(* only with a Principal it obtained from a successful resolution: never   *)
(* after a null result, a failed, timed-out or invalid API response, or    *)
(* with a synthesized fallback Principal.                                  *)
(***************************************************************************)
C39_OnlyResolvedCached ==
    \A p \in Procs :
        (pcalls[p].pc = "done" /\ pcalls[p].wroteCache)
        => /\ pcalls[p].outcome = "principal"
           /\ pcalls[p].got \notin {"failed", "timeout", "invalid"}

(***************************************************************************)
(* AccountService.ban(accountId, {reason, durationMs}): the expiry is      *)
(* computed from Date.now() at the call, then store.setBan is awaited.     *)
(***************************************************************************)
IdleBanCall == [pc |-> "idle", op |-> "none", id |-> 0, durationMs |-> None,
                at |-> 0, expiresAt |-> None]

BanInit ==
    /\ accounts = <<LinkedAccount>>
    /\ calls = [p \in Procs |-> IdleBanCall]
    /\ nCalls = 0
    /\ provider = "off"
    /\ autoCreate = TRUE
    /\ players = None
    /\ now = 0
    /\ MergeIdle
    /\ McIdle
    /\ PrincipalIdle
    /\ ApiIdle

\* ban is called: options.durationMs ? new Date(Date.now() + durationMs) : null
BanCall(p, id, durationMs) ==
    LET expiresAt == IF durationMs # None /\ ValueOf(durationMs) # 0
                     THEN Some(now + ValueOf(durationMs)) ELSE None
    IN  /\ HpFree(p)
        /\ id \in 1..Len(accounts)
        /\ calls' = [calls EXCEPT ![p] =
                [IdleBanCall EXCEPT !.pc = "setBan", !.op = "ban", !.id = id,
                                    !.durationMs = durationMs, !.at = now,
                                    !.expiresAt = expiresAt]]
        /\ nCalls' = nCalls + 1
        /\ UNCHANGED <<accounts, customFrame>>

\* store.setBan(accountId, true, reason, expiresAt) is applied.
BanWritten(p) ==
    LET c == calls[p] IN
    /\ c.op = "ban" /\ c.pc = "setBan"
    /\ accounts' = setBan(accounts, c.id, TRUE, c.expiresAt)
    /\ calls' = [calls EXCEPT ![p] = [c EXCEPT !.pc = "done"]]
    /\ UNCHANGED <<nCalls, customFrame>>

BanTick ==
    /\ Tick
    /\ UNCHANGED <<authVars, nonAuthVars>>

BanNext ==
    \/ \E p \in Procs, id \in 1..MaxCalls, d \in BanDurations : BanCall(p, id, d)
    \/ \E p \in Procs : BanWritten(p)
    \/ BanTick

SpecBan == BanInit /\ [][BanNext]_vars

(***************************************************************************)
(* C40 (ban duration).  ban stores banned = true with banExpiresAt = the   *)
(* time of the call + durationMs for every durationMs supplied, 0          *)
(* included, and a permanent ban (no expiry) only when durationMs is       *)
(* omitted.                                                                *)
(***************************************************************************)
C40_BanExpiryFromDuration ==
    [][\A p \in Procs :
        (calls[p].op = "ban" /\ calls[p].pc = "setBan" /\ calls'[p].pc = "done")
        => /\ accounts'[calls[p].id].isBanned
           /\ accounts'[calls[p].id].banExpiresAt =
                 IF calls[p].durationMs = None THEN None
                 ELSE Some(calls[p].at + ValueOf(calls[p].durationMs))]_vars

====
